---- MODULE Spec2Model ----
(***************************************************************************)
(* Transactions and editor states of the editing core                      *)
(* (state/src/transaction.ts, state/src/state.ts).                         *)
(*                                                                         *)
(* A document (Text) is a sequence of characters in which the character    *)
(* "\n" stands for one line break, so that its length counts a line break  *)
(* as one position, as the document collaborator does.  Line arrays are    *)
(* sequences of such sequences without "\n".                               *)
(***************************************************************************)
EXTENDS Integers, Sequences, FiniteSets, TLC

\* ------------------------------------------------------------------ bounds
MaxDocLen == 3   \* length of the longest document a state is created with
MaxWork == 2     \* calls counted in one run: successful updating calls on the
                 \* transactions, calls of create, fromJSON and field
MaxApply == 2    \* executions of applyTransaction for one transaction
MaxStates == 3   \* states in one run
MaxViews == 4    \* content views
MaxForeign == 1  \* rendered nodes that belong to no content view
MaxLeafLen == 2  \* length of the longest content view without children
MaxEdits == 2    \* replaceChildren calls and outside changes of the rendered tree
MaxSearchLen == 4  \* length of the longest document that is searched
MaxQueryLen == 2   \* length of the longest search string
MaxChunk == 2      \* the largest chunk size findPrevInRange is run with

Letters == <<"a", "b", "c", "d", "e", "f">>

Min(a, b) == IF a < b THEN a ELSE b
Max(a, b) == IF a > b THEN a ELSE b

\* ------------------------------------------------------- lines and documents
\* state.ts DEFAULT_SPLIT = /\r\n?|\n/ : the lines of a string.
RECURSIVE SplitFrom(_, _, _)
SplitFrom(str, i, cur) ==
  IF i > Len(str) THEN <<cur>>
  ELSE IF str[i] = "\r" /\ i < Len(str) /\ str[i + 1] = "\n"
         THEN <<cur>> \o SplitFrom(str, i + 2, <<>>)
  ELSE IF str[i] = "\r" \/ str[i] = "\n"
         THEN <<cur>> \o SplitFrom(str, i + 1, <<>>)
  ELSE SplitFrom(str, i + 1, Append(cur, str[i]))

splitLines(str) == SplitFrom(str, 1, <<>>)

\* The characters of a line array, one "\n" between two lines (Text.of).
RECURSIVE TextOf(_)
TextOf(lines) ==
  IF Len(lines) = 0 THEN <<>>
  ELSE IF Len(lines) = 1 THEN lines[1]
  ELSE lines[1] \o <<"\n">> \o TextOf(Tail(lines))

\* Length of a line array as document content: the lines plus the breaks.
RECURSIVE textLength(_)
textLength(lines) ==
  IF Len(lines) = 0 THEN 0
  ELSE IF Len(lines) = 1 THEN Len(lines[1])
  ELSE Len(lines[1]) + 1 + textLength(Tail(lines))

\* doc.sliceLines(from, to): the content of [from, to) as a line array.
sliceLines(doc, from, to) == SplitFrom(SubSeq(doc, from + 1, to), 1, <<>>)

\* doc.replace(from, to, lines)
docReplace(doc, from, to, lines) ==
  SubSeq(doc, 1, from) \o TextOf(lines) \o SubSeq(doc, to + 1, Len(doc))

\* ------------------------------------------------------------------ Change
\* new Change(from, to, text); length is the length of the inserted content.
NewChange(from, to, lines) == [from |-> from, to |-> to, text |-> lines]

ChangeLength(c) == textLength(c.text)

ChangeApply(c, doc) == docReplace(doc, c.from, c.to, c.text)

ChangeInvert(c, doc) ==
  NewChange(c.from, c.from + ChangeLength(c), sliceLines(doc, c.from, c.to))

\* Change.mapPos(pos, bias): where pos ends up after the change.
ChangeMapPos(c, pos, bias) ==
  LET from == c.from
      to == c.to
      length == ChangeLength(c)
  IN IF pos < from THEN pos
     ELSE IF pos > to THEN pos + (length - (to - from))
     ELSE IF pos = to \/ pos = from
       THEN IF (IF from = to THEN bias <= 0 ELSE pos = from)
              THEN from ELSE from + length
     ELSE from + (IF bias <= 0 THEN 0 ELSE length)

\* --------------------------------------------------------------- ChangeSet
NoMirror == -1

ChangeSetEmpty == [changes |-> <<>>, mirror |-> <<>>]

ChangeSetLength(set) == Len(set.changes)

\* ChangeSet.append(change, mirror)
ChangeSetAppend(set, c, mirror) ==
  [changes |-> Append(set.changes, c),
   mirror |-> IF mirror = NoMirror THEN set.mirror
              ELSE set.mirror \o <<Len(set.changes), mirror>>]

\* ChangeSet.partialMapping(from): the changes from index `from` (0-based) on.
partialMapping(set, from) == SubSeq(set.changes, from + 1, Len(set.changes))

\* mapping.mapPos(pos, bias): through each change in application order.
RECURSIVE mapPos(_, _, _)
mapPos(mapping, pos, bias) ==
  IF Len(mapping) = 0 THEN pos
  ELSE mapPos(Tail(mapping), ChangeMapPos(Head(mapping), pos, bias), bias)

\* Applying the changes of a set in their stored order.
RECURSIVE ApplyAll(_, _)
ApplyAll(changes, doc) ==
  IF Len(changes) = 0 THEN doc
  ELSE ApplyAll(Tail(changes), ChangeApply(Head(changes), doc))

\* --------------------------------------------------------------- selection
NewRange(anchor, head) == [anchor |-> anchor, head |-> head]
RangeFrom(r) == Min(r.anchor, r.head)
RangeTo(r) == Max(r.anchor, r.head)
RangeEmpty(r) == r.anchor = r.head

\* SelectionRange.map(mapping)
RangeMap(r, mapping) ==
  NewRange(mapPos(mapping, r.anchor, -1), mapPos(mapping, r.head, -1))

\* ranges.sort((a, b) => a.from - b.from), a stable sort; every range keeps
\* the index it had before (tag), which is what indexOf(primary) finds.
RECURSIVE InsertSorted(_, _)
InsertSorted(sorted, x) ==
  IF Len(sorted) = 0 THEN <<x>>
  ELSE IF RangeFrom(x.r) < RangeFrom(Head(sorted).r) THEN <<x>> \o sorted
  ELSE <<Head(sorted)>> \o InsertSorted(Tail(sorted), x)

RECURSIVE SortTagged(_, _)
SortTagged(ranges, n) ==
  IF n = 0 THEN <<>>
  ELSE InsertSorted(SortTagged(ranges, n - 1), [r |-> ranges[n], tag |-> n])

\* The merge loop of normalized(): ranges sorted, i is the 1-based index of
\* the range compared with its predecessor.
RECURSIVE MergeFrom(_, _, _)
MergeFrom(ranges, primaryIndex, i) ==
  IF i > Len(ranges) THEN [ranges |-> ranges, primaryIndex |-> primaryIndex]
  ELSE LET range == ranges[i]
           prev == ranges[i - 1]
       IN IF (IF RangeEmpty(range) THEN RangeFrom(range) <= RangeTo(prev)
                                   ELSE RangeFrom(range) < RangeTo(prev))
            THEN LET from == RangeFrom(prev)
                     to == Max(RangeTo(range), RangeTo(prev))
                     merged == IF range.anchor > range.head
                                 THEN NewRange(to, from) ELSE NewRange(from, to)
                     \* i is 1-based: the 0-based index of range is i - 1
                     pi == IF i - 1 <= primaryIndex THEN primaryIndex - 1 ELSE primaryIndex
                 IN MergeFrom(SubSeq(ranges, 1, i - 2) \o <<merged>>
                                \o SubSeq(ranges, i + 1, Len(ranges)), pi, i)
          ELSE MergeFrom(ranges, primaryIndex, i + 1)

normalized(ranges, primaryIndex) ==
  LET tagged == SortTagged(ranges, Len(ranges))
      sorted == [k \in 1..Len(tagged) |-> tagged[k].r]
      pi == (CHOOSE k \in 1..Len(tagged) : tagged[k].tag = primaryIndex + 1) - 1
  IN MergeFrom(sorted, pi, 2)

\* true when the loop of EditorSelection.create finds ranges out of order
RECURSIVE NeedsNormalizing(_, _, _)
NeedsNormalizing(ranges, i, pos) ==
  IF i > Len(ranges) THEN FALSE
  ELSE IF (IF RangeEmpty(ranges[i]) THEN RangeFrom(ranges[i]) <= pos
                                    ELSE RangeFrom(ranges[i]) < pos) THEN TRUE
  ELSE NeedsNormalizing(ranges, i + 1, RangeTo(ranges[i]))

\* EditorSelection.create(ranges, primaryIndex)
SelectionCreate(ranges, primaryIndex) ==
  IF NeedsNormalizing(ranges, 1, 0) THEN normalized(ranges, primaryIndex)
  ELSE [ranges |-> ranges, primaryIndex |-> primaryIndex]

\* EditorSelection.single(anchor, head)
SelectionSingle(anchor, head) ==
  [ranges |-> <<NewRange(anchor, head)>>, primaryIndex |-> 0]

SelectionPrimary(sel) == sel.ranges[sel.primaryIndex + 1]

\* EditorSelection.asSingle()
asSingle(sel) ==
  IF Len(sel.ranges) = 1 THEN sel
  ELSE [ranges |-> <<SelectionPrimary(sel)>>, primaryIndex |-> 0]

\* EditorSelection.map(mapping)
SelectionMap(sel, mapping) ==
  SelectionCreate([k \in 1..Len(sel.ranges) |-> RangeMap(sel.ranges[k], mapping)],
                  sel.primaryIndex)


\* ------------------------------------------------------------ configuration
\* A resolved configuration: an object (id) giving the value of the
\* allowMultipleSelections behavior and the declared state fields in order.
FieldIds == {1, 2}

ExtensionInputs ==
  { [multi |-> FALSE, fields |-> <<1>>],
    [multi |-> TRUE,  fields |-> <<1, 2>>] }

\* extendState.resolve(extensions): a new configuration object.
resolve(ext, id) == [id |-> id, multi |-> ext.multi, fields |-> ext.fields]

\* configuration.replaceExtensions(replace): a new configuration in which the
\* named extension that grants multiple selections is replaced.
ReplaceExtInputs == {[multi |-> FALSE], [multi |-> TRUE]}

replaceExtensions(conf, repl, id) ==
  [id |-> id, multi |-> repl.multi, fields |-> conf.fields]

\* A state field: init(state) and apply(tr, value, newState).  Fields 1 and 2
\* keep an object (the document length and the number of updates), field 3
\* keeps the document length as a number, field 4 keeps undefined.
FieldInit(f, doc) ==
  CASE f = 3 -> [num |-> Len(doc)]
    [] f = 4 -> [undefined |-> TRUE]
    [] OTHER -> [len |-> Len(doc), updates |-> 0]
FieldApply(f, value, doc) ==
  CASE f = 3 -> [num |-> Len(doc)]
    [] f = 4 -> [undefined |-> TRUE]
    [] f \in {5, 6} -> value
    [] OTHER -> [len |-> Len(doc), updates |-> value.updates + 1]

\* ---------------------------------------------------------------- the state
VARIABLES
  states,     \* every EditorState constructed so far; a state's identity is its index
  valueObjs,  \* the `values` objects: object id -> (field id -> value)
  confCount,  \* configurations resolved so far (the next one gets confCount + 1)
  tr,         \* the transactions: TrIds -> transaction or NoTr
  arrays,     \* the `docs` arrays of the transactions: array id -> documents
  res,        \* the last call: operation, transaction, outcome, argument, result
  applyRuns,  \* TrIds -> executions of startState.applyTransaction for it
  feLog,      \* the invocations of f in the last forEachRange call
  work,       \* updating calls that went through so far
  views,      \* the content views: view id -> parent, children, dirty, dom
  childNodes, \* the rendered tree: node id -> the ids of its child nodes
  edits,      \* replaceChildren calls and outside changes so far
  contentDOM, \* the child nodes of the content node, as the reconciler reads them
  records     \* mutation records that wait for a flush

vars == <<states, valueObjs, confCount, tr, arrays, res, applyRuns, feLog, work,
          views, childNodes, edits, contentDOM, records>>
viewVars == <<views, childNodes, edits>>
domVars == <<contentDOM, records>>
editorVars == <<states, valueObjs, confCount, tr, arrays, applyRuns, feLog, work>>

TrIds == {1, 2}
NoTr == [startState |-> 0]
NoLog == [start |-> 0, sel |-> [ranges |-> <<>>, primaryIndex |-> 0], calls |-> <<>>]
None == [none |-> TRUE]

Flag == [SelectionSet |-> 1, ScrollIntoView |-> 2, Reconfigure |-> 4]

HasFlag(flags, bit) == (flags \div bit) % 2 = 1
SetFlag(flags, bit) == IF HasFlag(flags, bit) THEN flags ELSE flags + bit

Live(t) == tr[t].startState # 0

\* The transaction t with the content of its docs array in place of the
\* reference to it.
Tx(t) == [tr[t] EXCEPT !.docs = arrays[tr[t].docs]]

\* Transaction.doc
TrDocOfStart(w) == states[w.startState].doc
TrDoc(w) ==
  LET last == Len(w.docs) - 1
  IN IF last < 0 THEN states[w.startState].doc ELSE w.docs[last + 1]

\* Transaction.docChanged
docChanged(w) == ChangeSetLength(w.changes) > 0
\* Transaction.selectionSet, scrolledIntoView, reconfigured
selectionSet(w) == HasFlag(w.flags, Flag.SelectionSet)
scrolledIntoView(w) == HasFlag(w.flags, Flag.ScrollIntoView)
reconfigured(w) == HasFlag(w.flags, Flag.Reconfigure)

\* Transaction.ensureOpen: TRUE when the call may go on.
ensureOpenNever(w) == TRUE
ensureOpen(w) == w.state = 0

\* The tests of Transaction.change: the empty edit that is skipped, and the
\* range that is rejected.
EmptyEditNever(c) == FALSE
EmptyEdit(c) == c.from = c.to /\ ChangeLength(c) = 0

InvalidChangeOfStart(w, c) ==
  c.from < 0 \/ c.to < c.from \/ c.to > Len(states[w.startState].doc)
InvalidChange(w, c) == c.from < 0 \/ c.to < c.from \/ c.to > Len(TrDoc(w))

Outcome(w, status) == [w |-> w, status |-> status]

\* Transaction.change(change, mirror)
changeWithoutDoc(w, c, mirror) ==
  IF ~ensureOpen(w) THEN Outcome(w, "Error")
  ELSE IF EmptyEdit(c) THEN Outcome(w, "ok")
  ELSE IF InvalidChange(w, c) THEN Outcome(w, "RangeError")
  ELSE Outcome([w EXCEPT !.changes = ChangeSetAppend(w.changes, c, mirror),
                         !.selection = SelectionMap(w.selection, <<c>>)], "ok")

change(w, c, mirror) ==
  IF ~ensureOpen(w) THEN Outcome(w, "Error")
  ELSE IF EmptyEdit(c) THEN Outcome(w, "ok")
  ELSE IF InvalidChange(w, c) THEN Outcome(w, "RangeError")
  ELSE Outcome([w EXCEPT !.changes = ChangeSetAppend(w.changes, c, mirror),
                         !.docs = Append(w.docs, ChangeApply(c, TrDoc(w))),
                         !.selection = SelectionMap(w.selection, <<c>>)], "ok")

\* Transaction.replace(from, to, text), text a string
replaceKeeping(w, from, to, text) ==
  change(w, NewChange(from, from, splitLines(text)), NoMirror)
replace(w, from, to, text) == change(w, NewChange(from, to, splitLines(text)), NoMirror)

\* Transaction.setSelection(selection)
setSelectionOfConfiguration(w, selection) ==
  IF ~ensureOpen(w) THEN Outcome(w, "Error")
  ELSE Outcome([w EXCEPT !.selection =
                           IF w.configuration.multi THEN selection ELSE asSingle(selection),
                         !.flags = SetFlag(w.flags, Flag.SelectionSet)], "ok")
setSelection(w, selection) ==
  IF ~ensureOpen(w) THEN Outcome(w, "Error")
  ELSE Outcome([w EXCEPT !.selection =
                           IF states[w.startState].configuration.multi
                             THEN selection ELSE asSingle(selection),
                         !.flags = SetFlag(w.flags, Flag.SelectionSet)], "ok")

\* Transaction.scrollIntoView()
scrollIntoView(w) ==
  IF ~ensureOpen(w) THEN Outcome(w, "Error")
  ELSE Outcome([w EXCEPT !.flags = SetFlag(w.flags, Flag.ScrollIntoView)], "ok")

\* Transaction.annotate(...annotations)
annotate(w, anns) ==
  IF ~ensureOpen(w) THEN Outcome(w, "Error")
  ELSE Outcome([w EXCEPT !.annotations = w.annotations \o anns], "ok")

\* The value undefined.
Undefined == [undefined |-> TRUE]

\* Transaction.annotation(type): the loop from the last annotation down;
\* undefined when it finds none.
RECURSIVE annotationFrom(_, _, _)
annotationFrom(anns, i, type) ==
  \* i is the 0-based index of the annotation looked at next, counting down
  IF i < 0 THEN Undefined
  ELSE IF anns[i + 1].type = type THEN [value |-> anns[i + 1].value]
  ELSE annotationFrom(anns, i - 1, type)

annotationOfFirst(w, type) ==
  LET places == {i \in 1..Len(w.annotations) : w.annotations[i].type = type}
  IN IF places = {} THEN Undefined
     ELSE [value |-> w.annotations[CHOOSE i \in places : \A j \in places : i <= j].value]
annotation(w, type) == annotationFrom(w.annotations, Len(w.annotations) - 1, type)

\* Transaction.annotations(type): the values found, in the order of the list.
RECURSIVE annotationsFrom(_, _, _, _)
annotationsFrom(anns, i, type, found) ==
  IF i > Len(anns) THEN found
  ELSE annotationsFrom(anns, i + 1, type,
                       IF anns[i].type = type THEN Append(found, anns[i].value) ELSE found)

annotations(w, type) == annotationsFrom(w.annotations, 1, type, <<>>)

\* Transaction.replaceExtensions(replace)
trReplaceExtensions(w, repl, id) ==
  IF ~ensureOpen(w) THEN Outcome(w, "Error")
  ELSE Outcome([w EXCEPT !.configuration = replaceExtensions(w.configuration, repl, id),
                         !.flags = SetFlag(w.flags, Flag.Reconfigure)], "ok")

\* Transaction.reconfigure(extensions)
reconfigure(w, ext, id) ==
  IF ~ensureOpen(w) THEN Outcome(w, "Error")
  ELSE Outcome([w EXCEPT !.configuration = resolve(ext, id),
                         !.flags = SetFlag(w.flags, Flag.Reconfigure)], "ok")


\* ------------------------------------------------------------ forEachRange
\* The functions handed to forEachRange.  "replace" is the function of
\* replaceSelection (content: the line array to insert); the others are
\* callers' functions: "keep" returns its range, "insertBefore" adds one
\* character at the start of the range, "prepend" adds one at the start of
\* the document, "delete" removes the range, "wrap" adds a character at both
\* ends of the range.
CallbackResult(w, status, result) == [w |-> w, status |-> status, result |-> result]

\* The changes f makes, one after the other, stopping at the first that fails.
RECURSIVE RunChanges(_, _)
RunChanges(w, cs) ==
  IF Len(cs) = 0 THEN Outcome(w, "ok")
  ELSE LET o == change(w, Head(cs), NoMirror)
       IN IF o.status # "ok" THEN o ELSE RunChanges(o.w, Tail(cs))

CallbackChanges(cb, range) ==
  LET from == RangeFrom(range)
      to == RangeTo(range)
  IN CASE cb.kind = "replace" -> <<NewChange(from, to, cb.content)>>
       [] cb.kind = "keep" -> <<>>
       [] cb.kind = "insertBefore" -> <<NewChange(from, from, <<<<"X">>>>)>>
       [] cb.kind = "prepend" -> <<NewChange(0, 0, <<<<"X">>>>)>>
       [] cb.kind = "delete" -> <<NewChange(from, to, <<<<>>>>)>>
       [] cb.kind = "wrap" -> <<NewChange(to, to, <<<<"X">>>>),
                                NewChange(from, from, <<<<"X">>>>)>>

\* The cursor the function of replaceSelection returns:
\* new SelectionRange(range.from + change.length)
ReplaceCursorAtEnd(range, content) ==
  NewRange(RangeTo(range) + textLength(content), RangeTo(range) + textLength(content))
ReplaceCursor(range, content) ==
  NewRange(RangeFrom(range) + textLength(content), RangeFrom(range) + textLength(content))

CallbackReturn(cb, range) ==
  LET from == RangeFrom(range)
      to == RangeTo(range)
  IN CASE cb.kind = "replace" -> ReplaceCursor(range, cb.content)
       [] cb.kind = "keep" -> range
       [] cb.kind = "insertBefore" -> NewRange(range.anchor + 1, range.head + 1)
       [] cb.kind = "prepend" -> NewRange(range.anchor + 1, range.head + 1)
       [] cb.kind = "delete" -> NewRange(from, from)
       [] cb.kind = "wrap" -> NewRange(range.anchor + 1, range.head + 1)

CallbackRun(cb, range, w) ==
  LET o == RunChanges(w, CallbackChanges(cb, range))
  IN CallbackResult(o.w, o.status, CallbackReturn(cb, range))

\* The ranges collected so far, mapped through the changes the last
\* invocation of f added (those from index `before` on).
RemapNever(newRanges, set, before) == newRanges
RemapCollected(newRanges, set, before) ==
  IF ChangeSetLength(set) > before
    THEN [i \in 1..Len(newRanges) |-> RangeMap(newRanges[i], partialMapping(set, before))]
    ELSE newRanges

\* The mapping a range goes through before it is handed to f:
\* this.changes.partialMapping(start)
ArgMappingAll(set, start) == partialMapping(set, 0)
ArgMapping(set, start) == partialMapping(set, start)

\* The selection forEachRange sets at its end:
\* EditorSelection.create(newRanges, sel.primaryIndex)
CollectedSelectionRaw(newRanges, primaryIndex) ==
  [ranges |-> newRanges, primaryIndex |-> primaryIndex]
CollectedSelection(newRanges, primaryIndex) == SelectionCreate(newRanges, primaryIndex)

\* The loop of forEachRange from the k-th range of sel on.  calls logs, for
\* every invocation of f, the range it was given, the number of changes
\* before and after it, and the range it returned.
RECURSIVE forEachLoop(_, _, _, _, _, _, _)
forEachLoop(w, cb, sel, start, k, newRanges, calls) ==
  IF k > Len(sel.ranges)
    THEN LET o == setSelection(w, CollectedSelection(newRanges, sel.primaryIndex))
         IN [w |-> o.w, status |-> o.status, calls |-> calls]
  ELSE LET before == ChangeSetLength(w.changes)
           arg == RangeMap(sel.ranges[k], ArgMapping(w.changes, start))
           r == CallbackRun(cb, arg, w)
           mappedRanges == RemapCollected(newRanges, r.w.changes, before)
           entry == [arg |-> arg, before |-> before,
                     after |-> ChangeSetLength(r.w.changes), result |-> r.result]
       IN IF r.status # "ok"
            THEN [w |-> r.w, status |-> r.status, calls |-> Append(calls, entry)]
          ELSE forEachLoop(r.w, cb, sel, start, k + 1, Append(mappedRanges, r.result),
                           Append(calls, entry))

\* Transaction.forEachRange(f)
forEachRange(w, cb) ==
  forEachLoop(w, cb, w.selection, ChangeSetLength(w.changes), 1, <<>>, <<>>)

\* Transaction.replaceSelection(text), text a string
replaceSelection(w, text) ==
  forEachRange(w, [kind |-> "replace", content |-> splitLines(text)])

\* Transaction.invertedChanges()
RECURSIVE InvertAfter(_, _)
InvertAfter(w, i) ==
  IF i < 0 THEN <<>>
  ELSE <<ChangeInvert(w.changes.changes[i + 1], w.docs[i + 1])>> \o InvertAfter(w, i - 1)

RECURSIVE InvertFrom(_, _)
InvertFrom(w, i) ==
  \* i is the 0-based index of the change inverted next, counting down
  IF i < 0 THEN <<>>
  ELSE <<ChangeInvert(w.changes.changes[i + 1],
                      IF i = 0 THEN states[w.startState].doc ELSE w.docs[i])>>
       \o InvertFrom(w, i - 1)

invertedChanges(w) ==
  IF ChangeSetLength(w.changes) = 0 THEN ChangeSetEmpty
  ELSE LET set == w.changes
       IN [changes |-> InvertFrom(w, ChangeSetLength(set) - 1),
           mirror |-> [k \in 1..Len(set.mirror) |->
                         ChangeSetLength(set) - set.mirror[k] - 1]]


\* ------------------------------------------------------------- EditorState
\* The check of the EditorState constructor: TRUE when it throws.
ConstructorThrowsNever(doc, selection) == FALSE
ConstructorThrows(doc, selection) ==
  \E k \in 1..Len(selection.ranges) : RangeTo(selection.ranges[k]) > Len(doc)

HasOwn(obj, f) == f \in DOMAIN obj

Fields(conf) == {conf.fields[k] : k \in 1..Len(conf.fields)}

\* The id of the object that applyTransaction fills with the field values:
\* values = Object.create(null), an object of its own for the new state.
NewValuesOfStart(this) == states[this].values
NewValuesId(this) == Len(states) + 1

\* The field values written by the loop of applyTransaction.
AppliedValuesOfOld(this, w, doc) ==
  LET old == valueObjs[states[this].values]
  IN [f \in Fields(states[this].configuration) |-> FieldApply(f, old[f], doc)]
AppliedValues(this, w, doc) ==
  LET old == valueObjs[states[this].values]
  IN [f \in Fields(w.configuration) |->
        LET exists == w.configuration.id = states[this].configuration.id
                        \/ HasOwn(old, f)
        IN IF exists THEN FieldApply(f, old[f], doc) ELSE FieldInit(f, doc)]

\* Transaction.apply(): the cached state when there is one.
CachedNever(w) == 0
CachedState(w) == w.state

\* ------------------------------------------------------------------ inputs
InitDocs == {SubSeq(Letters, 1, n) : n \in {0, MaxDocLen}}

\* Selections a caller builds with EditorSelection.single and .create, also
\* unsorted, overlapping and reaching past the end of a document of length n.
SelectionInputs(n) ==
  { SelectionSingle(n, 0), SelectionSingle(n + 1, n + 1),
    SelectionCreate(<<NewRange(1, 2), NewRange(2, 3)>>, 0),
    SelectionCreate(<<NewRange(2, 1), NewRange(0, 0)>>, 0),
    SelectionCreate(<<NewRange(0, 2), NewRange(1, 3)>>, 1) }

InitSelections(n) ==
  { SelectionSingle(0, 0), SelectionCreate(<<NewRange(0, 1), NewRange(2, 3)>>, 1) }

TimeInputs == {10}
TextInputs == {<<>>, <<"X">>}
AnnotationInputs ==
  << [type |-> "userEvent", value |-> "paste"], [type |-> "userEvent", value |-> "cut"],
     [type |-> "time", value |-> 20] >>
CallbackInputs == {[kind |-> k] : k \in {"keep", "insertBefore", "prepend", "delete", "wrap"}}

\* The ranges of the changes tried on a document of length n: inside the
\* document, and outside of it (from < 0, to < from, to > n).
ValidRanges(n) == {r \in {<<0, 1>>, <<1, 2>>, <<0, n>>} : r[2] <= n}
InvalidRanges(n) == {<<-1, 0>>, <<2, 1>>, <<n, n + 1>>, <<n + 1, n + 1>>}

\* replace(from, to, text)
ReplaceInputs(n) ==
  {<<r[1], r[2], text>> : r \in ValidRanges(n), text \in TextInputs}
    \cup {<<r[1], r[2], <<"X">>>> : r \in InvalidRanges(n)}
    \cup {<<0, 0, <<"\r", "\n">>>>, <<n, n, <<"X">>>>, <<n, n, <<>>>>, <<n + 1, n + 1, <<>>>>}

\* change(change, mirror)
ChangeInputs(n) ==
  {NewChange(1, 1, <<<<"Y">>, <<>>>>), NewChange(n + 1, n + 2, <<<<"Y">>>>)}

\* ----------------------------------------------------------------- actions
\* The argument is kept for the calls made on an open transaction.
Result(op, t, status, arg, value) ==
  [op |-> op, t |-> t, status |-> status,
   arg |-> IF status = "Error" THEN None ELSE arg, value |-> value]

\* The id of the docs array of a new transaction: docs = [], an array of its own.
NewDocsArray(t) == t

\* Writes the transaction w back as transaction t.
Store(t, w) ==
  /\ tr' = [tr EXCEPT ![t] = [w EXCEPT !.docs = tr[t].docs]]
  /\ arrays' = [arrays EXCEPT ![tr[t].docs] = w.docs]

\* state.t(time): new Transaction(state, time)
T(t, s, time) ==
  /\ ~Live(t)
  /\ \A u \in TrIds : u < t => Live(u)
  /\ tr' = [tr EXCEPT ![t] =
              [startState |-> s, changes |-> ChangeSetEmpty, docs |-> NewDocsArray(t),
               selection |-> states[s].selection,
               annotations |-> <<[type |-> "time", value |-> time]>>,
               flags |-> 0, configuration |-> states[s].configuration, state |-> 0]]
  /\ arrays' = [arrays EXCEPT ![NewDocsArray(t)] = <<>>]
  /\ res' = Result("t", t, "ok", None, None)
  /\ feLog' = NoLog
  /\ UNCHANGED <<states, valueObjs, confCount, applyRuns, work, viewVars, domVars>>

\* A call of a mutating method with outcome o.
Mutate(t, op, o, arg) ==
  /\ o.w # Tx(t) => work < MaxWork
  /\ Store(t, o.w)
  /\ res' = Result(op, t, o.status, arg, None)
  /\ work' = IF o.w # Tx(t) THEN work + 1 ELSE work
  /\ UNCHANGED <<states, valueObjs, applyRuns, viewVars, domVars>>

Change(t, c, mirror) ==
  /\ Live(t)
  /\ Mutate(t, "change", change(Tx(t), c, mirror), [change |-> c, mirror |-> mirror])
  /\ feLog' = NoLog
  /\ UNCHANGED confCount

Replace(t, from, to, text) ==
  /\ Live(t)
  /\ Mutate(t, "replace", replace(Tx(t), from, to, text),
            [change |-> NewChange(from, to, splitLines(text)), mirror |-> NoMirror])
  /\ feLog' = NoLog
  /\ UNCHANGED confCount

SetSelection(t, sel) ==
  /\ Live(t)
  /\ Mutate(t, "setSelection", setSelection(Tx(t), sel), [selection |-> sel])
  /\ feLog' = NoLog
  /\ UNCHANGED confCount

ScrollIntoView(t) ==
  /\ Live(t)
  /\ Mutate(t, "scrollIntoView", scrollIntoView(Tx(t)), None)
  /\ feLog' = NoLog
  /\ UNCHANGED confCount

Annotate(t, anns) ==
  /\ Live(t)
  /\ Mutate(t, "annotate", annotate(Tx(t), anns), [annotations |-> anns])
  /\ feLog' = NoLog
  /\ UNCHANGED confCount

ReplaceExtensions(t, repl) ==
  /\ Live(t)
  /\ LET o == trReplaceExtensions(Tx(t), repl, confCount + 1)
     IN /\ Mutate(t, "replaceExtensions", o, [replace |-> repl])
        /\ confCount' = IF o.status = "ok" THEN confCount + 1 ELSE confCount
  /\ feLog' = NoLog

Reconfigure(t, ext) ==
  /\ Live(t)
  /\ LET o == reconfigure(Tx(t), ext, confCount + 1)
     IN /\ Mutate(t, "reconfigure", o, [extensions |-> ext])
        /\ confCount' = IF o.status = "ok" THEN confCount + 1 ELSE confCount
  /\ feLog' = NoLog

ForEachRange(t, cb) ==
  /\ Live(t)
  /\ LET w == Tx(t)
         o == forEachRange(w, cb)
     IN /\ Mutate(t, "forEachRange", o, [f |-> cb])
        /\ feLog' = [start |-> ChangeSetLength(w.changes), sel |-> w.selection,
                     calls |-> o.calls]
  /\ UNCHANGED confCount

ReplaceSelection(t, text) ==
  /\ Live(t)
  /\ LET w == Tx(t)
         o == replaceSelection(w, text)
     IN /\ Mutate(t, "replaceSelection", o, [text |-> text])
        /\ feLog' = [start |-> ChangeSetLength(w.changes), sel |-> w.selection,
                     calls |-> o.calls]
  /\ UNCHANGED confCount

\* Transaction.apply(), with EditorState.applyTransaction
\* this.state = this.startState.applyTransaction(this), when the right-hand
\* side throws: the assignment is not made.
StateAfterThrowOfNew(w) == Len(states) + 1
StateAfterThrow(w) == w.state

\* tr.apply(); `fails` says that a field's init or apply function throws.
Apply(t, fails) ==
  /\ Live(t)
  /\ LET w == Tx(t)
         this == w.startState
         doc == TrDoc(w)
         id == Len(states) + 1
         obj == NewValuesId(this)
         written == AppliedValues(this, w, doc)
         base == IF obj \in DOMAIN valueObjs THEN valueObjs[obj] ELSE <<>>
     IN IF CachedState(w) # 0
          THEN /\ res' = Result("apply", t, "ok", None, [state |-> CachedState(w)])
               /\ UNCHANGED <<states, valueObjs, tr, arrays, applyRuns>>
        ELSE IF applyRuns[t] >= MaxApply THEN FALSE
        ELSE IF ConstructorThrows(doc, w.selection)
          THEN /\ res' = Result("apply", t, "RangeError", None, None)
               /\ applyRuns' = [applyRuns EXCEPT ![t] = @ + 1]
               /\ tr' = [tr EXCEPT ![t].state = StateAfterThrow(w)]
               /\ UNCHANGED <<states, valueObjs, arrays>>
        ELSE IF fails
          THEN /\ res' = Result("apply", t, "FieldError", None, None)
               /\ applyRuns' = [applyRuns EXCEPT ![t] = @ + 1]
               /\ tr' = [tr EXCEPT ![t].state = StateAfterThrow(w)]
               /\ UNCHANGED <<states, valueObjs, arrays>>
        ELSE /\ states' = Append(states, [configuration |-> w.configuration, values |-> obj,
                                          doc |-> doc, selection |-> w.selection])
             /\ valueObjs' = (obj :> (written @@ base)) @@ valueObjs
             /\ tr' = [tr EXCEPT ![t].state = id]
             /\ applyRuns' = [applyRuns EXCEPT ![t] = @ + 1]
             /\ res' = Result("apply", t, "ok", None, [state |-> id])
             /\ UNCHANGED arrays
  /\ feLog' = NoLog
  /\ UNCHANGED <<confCount, work, viewVars, domVars>>

InvertedChanges(t) ==
  /\ Live(t)
  /\ res' = Result("invertedChanges", t, "ok", None, [inverted |-> invertedChanges(Tx(t))])
  /\ feLog' = NoLog
  /\ UNCHANGED <<states, valueObjs, confCount, tr, arrays, applyRuns, work, viewVars, domVars>>

\* if (value): what a condition makes of a field value.  Objects are true,
\* the number 0 and undefined are false.
Truthy(v) ==
  IF "num" \in DOMAIN v THEN v.num # 0
  ELSE IF "undefined" \in DOMAIN v THEN FALSE
  ELSE TRUE

\* this.values[field.id]
ValueAt(values, f) == IF f \in DOMAIN values THEN values[f] ELSE Undefined

\* EditorState.field(field, require) on a state with the given values object
\* and declared fields.
fieldRequireAlways(values, declared, f, require) ==
  LET value == ValueAt(values, f)
  IN IF value = Undefined /\ ~HasOwn(values, f)
       THEN [status |-> "RangeError", value |-> Undefined]
     ELSE [status |-> "ok", value |-> value]
field(values, declared, f, require) ==
  LET value == ValueAt(values, f)
  IN IF value = Undefined /\ ~HasOwn(values, f)
       THEN IF f \in declared THEN [status |-> "RangeError", value |-> Undefined]
            ELSE IF require THEN [status |-> "RangeError", value |-> Undefined]
            ELSE [status |-> "ok", value |-> Undefined]
     ELSE [status |-> "ok", value |-> value]

\* field.init(state) for a state under construction.  The initializer of
\* field 5 is state.field(field1, false), that of field 6 is
\* state.field(field1), so they read another field of the state.
FieldInitIn(f, values, declared, doc) ==
  CASE f = 5 -> field(values, declared, 1, FALSE)
    [] f = 6 -> field(values, declared, 1, TRUE)
    [] OTHER -> [status |-> "ok", value |-> FieldInit(f, doc)]

\* The loop of EditorState.create over the declared fields, from the k-th
\* on.  inits lists the fields whose initializer has been called.
Exists(values, f) == Truthy(ValueAt(values, f))

RECURSIVE createFields(_, _, _, _, _)
createFields(fields, k, values, doc, inits) ==
  IF k > Len(fields) THEN [status |-> "ok", values |-> values, inits |-> inits]
  ELSE IF Exists(values, fields[k])
    THEN [status |-> "Error", values |-> values, inits |-> inits]
  ELSE LET declared == {fields[j] : j \in 1..Len(fields)}
           r == FieldInitIn(fields[k], values, declared, doc)
       IN IF r.status # "ok"
            THEN [status |-> r.status, values |-> values, inits |-> Append(inits, fields[k])]
          ELSE createFields(fields, k + 1, (fields[k] :> r.value) @@ values, doc,
                            Append(inits, fields[k]))

\* No selection given in the configuration object.
NoSelection == [ranges |-> <<>>, primaryIndex |-> 0]

\* The document of a configuration object {doc}: a Text as it is, a string
\* split into lines, the empty document when there is none.
DocOfConfig(doc) ==
  IF doc.kind = "Text" THEN doc.v
  ELSE TextOf(splitLines(IF doc.kind = "string" THEN doc.v ELSE <<>>))

\* EditorState.create({doc, selection, extensions}); confId and objId are
\* the identities of the new configuration and the new values object.
createAt(docConfig, selection, ext, confId, objId) ==
  LET configuration == resolve(ext, confId)
      doc == DocOfConfig(docConfig)
      given == IF selection = NoSelection THEN SelectionSingle(0, 0) ELSE selection
      sel == IF configuration.multi THEN given ELSE asSingle(given)
      state == [configuration |-> configuration, values |-> objId, doc |-> doc, selection |-> sel]
  IN IF ConstructorThrows(doc, sel)
       THEN [status |-> "RangeError", state |-> state, values |-> <<>>, inits |-> <<>>]
     ELSE LET r == createFields(configuration.fields, 1, <<>>, doc, <<>>)
          IN [status |-> r.status, state |-> state, values |-> r.values, inits |-> r.inits]

\* EditorState.create for the first state, with a Text as document.
create(doc, selection, ext) == createAt([kind |-> "Text", v |-> doc], selection, ext, 1, 1)

\* joinLines(text): text.join("\n")
RECURSIVE joinLines(_)
joinLines(text) ==
  IF Len(text) = 0 THEN <<>>
  ELSE IF Len(text) = 1 THEN text[1]
  ELSE text[1] \o <<"\n">> \o joinLines(Tail(text))

\* EditorSelection.toJSON() and EditorSelection.fromJSON(json)
selectionToJSON(sel) ==
  [ranges |-> [k \in 1..Len(sel.ranges) |->
                 [anchor |-> sel.ranges[k].anchor, head |-> sel.ranges[k].head]],
   primaryIndex |-> sel.primaryIndex]
selectionFromJSON(json) ==
  [ranges |-> [k \in 1..Len(json.ranges) |->
                 NewRange(json.ranges[k].anchor, json.ranges[k].head)],
   primaryIndex |-> json.primaryIndex]

\* EditorState.toJSON().  A json value is given by whether there is one
\* (present) and the type of its doc property ("string", "number" or
\* "missing"), next to the properties.
toJSON(state) ==
  [present |-> TRUE, docType |-> "string",
   doc |-> joinLines(sliceLines(state.doc, 0, Len(state.doc))),
   selection |-> selectionToJSON(state.selection)]

\* EditorState.fromJSON(json, {extensions})
InvalidJSON(json) == ~json.present \/ json.docType # "string"

fromJSON(json, ext, confId, objId) ==
  IF InvalidJSON(json)
    THEN [status |-> "RangeError", state |-> None, values |-> <<>>, inits |-> <<>>]
  ELSE createAt([kind |-> "string", v |-> json.doc], selectionFromJSON(json.selection),
                ext, confId, objId)

\* ======================================================= the content views
\* view/src/contentview.ts.  A content view is a record of its parent (0 when
\* it has none), its children, its dirty bits, its dom (0 when it has
\* none), its length and its breakAfter.  The rendered node of view v is node v; the nodes above MaxViews
\* belong to no view.  A node of the rendered tree is known by
\* the list of its child nodes.
Dirty == [Not |-> 0, Child |-> 1, Node |-> 2]

ViewIds == 1..MaxViews
NodeIds == 1..(MaxViews + MaxForeign)
ForeignNodes == NodeIds \ ViewIds

\* node.parentNode, 0 when the node is in no child list
ParentNode(d, n) ==
  IF \E p \in DOMAIN d : \E i \in DOMAIN d[p] : d[p][i] = n
    THEN CHOOSE p \in DOMAIN d : \E i \in DOMAIN d[p] : d[p][i] = n
  ELSE 0

IndexIn(seq, n) == CHOOSE i \in DOMAIN seq : seq[i] = n

\* node.nextSibling and node.previousSibling, 0 for null
NextSibling(d, n) ==
  LET p == ParentNode(d, n)
  IN IF p = 0 THEN 0
     ELSE IF IndexIn(d[p], n) < Len(d[p]) THEN d[p][IndexIn(d[p], n) + 1] ELSE 0
PreviousSibling(d, n) ==
  LET p == ParentNode(d, n)
  IN IF p = 0 THEN 0
     ELSE IF IndexIn(d[p], n) > 1 THEN d[p][IndexIn(d[p], n) - 1] ELSE 0

\* node.firstChild
FirstChild(d, p) == IF d[p] = <<>> THEN 0 ELSE d[p][1]

\* node.cmView, 0 when the node belongs to no view (setDOM sets both sides)
CmView(vs, n) == IF n \in ViewIds /\ vs[n].dom = n THEN n ELSE 0

\* TRUE when node n is node a or lies below it
RECURSIVE Contains(_, _, _)
Contains(d, a, n) ==
  a = n \/ \E i \in DOMAIN d[a] : Contains(d, d[a][i], n)

\* parentNode.removeChild(n)
removeChild(d, n) ==
  [d EXCEPT ![ParentNode(d, n)] = SelectSeq(@, LAMBDA x : x # n)]

\* parent.insertBefore(n, pos): n leaves the list it is in and enters the
\* list of parent before pos, at the end when pos is null.  The call throws
\* when pos is not a child of parent and when n contains parent.
insertBefore(d, parent, n, pos) ==
  IF Contains(d, n, parent) THEN [status |-> "HierarchyRequestError", d |-> d]
  ELSE IF pos # 0 /\ ParentNode(d, pos) # parent THEN [status |-> "NotFoundError", d |-> d]
  ELSE LET before == IF pos = n THEN NextSibling(d, n) ELSE pos
           d1 == IF ParentNode(d, n) # 0 THEN removeChild(d, n) ELSE d
           i == IF before = 0 THEN Len(d1[parent]) + 1 ELSE IndexIn(d1[parent], before)
       IN [status |-> "ok",
           d |-> [d1 EXCEPT ![parent] =
                    SubSeq(@, 1, i - 1) \o <<n>> \o SubSeq(@, i, Len(@))]]

\* The views and the rendered tree during one call of sync, with the
\* changes of the rendered tree it made, the views whose sync ran, and
\* "ok" or the error that ended the call.
SyncStart(vs, d) == [views |-> vs, dom |-> d, ops |-> <<>>, synced |-> <<>>, status |-> "ok"]
Thrown(st, error) == [st EXCEPT !.status = error]

\* rm(dom): removes the node and returns the one after it
rm(st, n) ==
  IF n = 0 \/ ParentNode(st.dom, n) = 0 THEN [st |-> Thrown(st, "TypeError"), pos |-> 0]
  ELSE [st |-> [st EXCEPT !.dom = removeChild(@, n),
                          !.ops = Append(@, [op |-> "removeChild", node |-> n,
                                             parent |-> ParentNode(st.dom, n)])],
        pos |-> NextSibling(st.dom, n)]

\* while (pos != dom) pos = rm(pos!)
RECURSIVE rmUntil(_, _, _)
rmUntil(st, pos, dom) ==
  IF st.status # "ok" \/ pos = dom THEN [st |-> st, pos |-> pos]
  ELSE rmUntil(rm(st, pos).st, rm(st, pos).pos, dom)

\* while (pos) pos = rm(pos)
RECURSIVE rmRest(_, _)
rmRest(st, pos) ==
  IF st.status # "ok" \/ pos = 0 THEN st
  ELSE rmRest(rm(st, pos).st, rm(st, pos).pos)

\* syncNodeInto(parent, pos, dom): the position after dom
syncNodeIntoAlways(st, parent, pos, dom) ==
  LET i == insertBefore(st.dom, parent, dom, pos)
  IN IF i.status # "ok" THEN [st |-> Thrown(st, i.status), pos |-> 0]
     ELSE [st |-> [st EXCEPT !.dom = i.d,
                             !.ops = Append(@, [op |-> "insertBefore", node |-> dom,
                                                parent |-> parent])],
           pos |-> NextSibling(i.d, dom)]

syncNodeInto(st, parent, pos, dom) ==
  IF ParentNode(st.dom, dom) = parent
    THEN LET r == rmUntil(st, pos, dom)
         IN IF r.st.status # "ok" THEN r
            ELSE [st |-> r.st, pos |-> NextSibling(r.st.dom, dom)]
  ELSE LET i == insertBefore(st.dom, parent, dom, pos)
       IN IF i.status # "ok" THEN [st |-> Thrown(st, i.status), pos |-> 0]
          ELSE [st |-> [st EXCEPT !.dom = i.d,
                                  !.ops = Append(@, [op |-> "insertBefore", node |-> dom,
                                                     parent |-> parent])],
                pos |-> pos]

\* reuseDOM(dom) of the base class
reuseDOM(v, dom) == FALSE

\* ContentView.sync()
RECURSIVE sync(_, _)
RECURSIVE syncChildren(_, _, _, _)
RECURSIVE syncDirtyChildren(_, _, _)

\* child.sync(); child.dirty = Dirty.Not
syncChild(st, child) ==
  LET s1 == sync(st, child)
  IN IF s1.status # "ok" THEN s1 ELSE [s1 EXCEPT !.views[child].dirty = Dirty.Not]

\* The loop over the children of a view with the Node bit, from child k
\* with the cursor at pos, and the removal of what follows the last child.
syncChildren(st, v, k, pos) ==
  IF st.status # "ok" THEN st
  ELSE IF k > Len(st.views[v].children) THEN rmRest(st, pos)
  ELSE LET child == st.views[v].children[k]
           dirty == st.views[child].dirty # Dirty.Not
           prev == PreviousSibling(st.dom, pos)
           pos1 == IF dirty /\ pos # 0 /\ st.views[child].dom = 0 /\ CmView(st.views, pos) = 0
                      /\ reuseDOM(child, pos)
                     THEN IF prev # 0 THEN NextSibling(st.dom, prev)
                          ELSE FirstChild(st.dom, st.views[v].dom)
                   ELSE pos
           s1 == IF dirty THEN syncChild(st, child) ELSE st
           r == syncNodeInto(s1, s1.views[v].dom, pos1, s1.views[child].dom)
       IN IF s1.status # "ok" THEN s1 ELSE syncChildren(r.st, v, k + 1, r.pos)

\* The loop over the children of a view with the Child bit only.
syncDirtyChildren(st, v, k) ==
  IF st.status # "ok" \/ k > Len(st.views[v].children) THEN st
  ELSE LET child == st.views[v].children[k]
       IN syncDirtyChildren(IF st.views[child].dirty # Dirty.Not THEN syncChild(st, child) ELSE st,
                            v, k + 1)

sync(st, v) ==
  LET s0 == [st EXCEPT !.synced = Append(@, v)]
  IN IF HasFlag(st.views[v].dirty, Dirty.Node)
       THEN syncChildren(s0, v, 1, FirstChild(s0.dom, s0.views[v].dom))
     ELSE IF HasFlag(st.views[v].dirty, Dirty.Child) THEN syncDirtyChildren(s0, v, 1)
     ELSE s0

\* markParentsDirty(childList), from the ancestor `parent` on; visited are
\* the ancestors the loop looked at.
RECURSIVE markParentsFrom(_, _, _, _)
markParentsFrom(vs, parent, childList, visited) ==
  IF parent = 0 THEN [views |-> vs, visited |-> visited]
  ELSE LET vs1 == IF childList THEN [vs EXCEPT ![parent].dirty = SetFlag(@, Dirty.Node)]
                  ELSE vs
       IN IF HasFlag(vs1[parent].dirty, Dirty.Child)
            THEN [views |-> vs1, visited |-> Append(visited, parent)]
          ELSE markParentsFrom([vs1 EXCEPT ![parent].dirty = SetFlag(@, Dirty.Child)],
                               vs1[parent].parent, FALSE, Append(visited, parent))

\* v.markParentsDirty(childList)
markParentsDirtyOnce(vs, v, childList) ==
  IF vs[v].parent = 0 THEN [views |-> vs, visited |-> <<>>]
  ELSE [views |-> [vs EXCEPT ![vs[v].parent].dirty =
                     SetFlag(IF childList THEN SetFlag(@, Dirty.Node) ELSE @, Dirty.Child)],
        visited |-> <<vs[v].parent>>]

markParentsDirty(vs, v, childList) == markParentsFrom(vs, vs[v].parent, childList, <<>>)

\* markDirty(andParent)
markDirtyAlone(vs, v, andParent) ==
  IF HasFlag(vs[v].dirty, Dirty.Node) THEN [views |-> vs, visited |-> <<>>]
  ELSE [views |-> [vs EXCEPT ![v].dirty = SetFlag(@, Dirty.Node)], visited |-> <<>>]
markDirty(vs, v, andParent) ==
  IF HasFlag(vs[v].dirty, Dirty.Node) THEN [views |-> vs, visited |-> <<>>]
  ELSE markParentsDirty([vs EXCEPT ![v].dirty = SetFlag(@, Dirty.Node)], v, andParent)

\* setParent(parent)
setParent(vs, v, parent) ==
  IF vs[v].parent # parent
    THEN LET vs1 == [vs EXCEPT ![v].parent = parent]
         IN IF vs1[v].dirty # Dirty.Not THEN markParentsDirty(vs1, v, TRUE).views ELSE vs1
  ELSE vs

\* for (i = 0; i < children.length; i++) children[i].setParent(this)
RECURSIVE setParents(_, _, _, _)
setParents(vs, children, i, v) ==
  IF i > Len(children) THEN vs
  ELSE setParents(setParent(vs, children[i], v), children, i + 1, v)

\* replaceChildren(from, to, children), from and to counted from 0
replaceChildrenAttached(vs, v, from, to, children) ==
  LET vs1 == markDirty(vs, v, FALSE).views
      old == vs1[v].children
      vs3 == [vs1 EXCEPT ![v].children =
                SubSeq(old, 1, from) \o children \o SubSeq(old, to + 1, Len(old))]
  IN setParents(vs3, children, 1, v)

replaceChildren(vs, v, from, to, children) ==
  LET vs1 == markDirty(vs, v, FALSE).views
      old == vs1[v].children
      vs2 == [u \in DOMAIN vs1 |->
                IF \E i \in (from + 1)..to : old[i] = u THEN [vs1[u] EXCEPT !.parent = 0]
                ELSE vs1[u]]
      vs3 == [vs2 EXCEPT ![v].children =
                SubSeq(old, 1, from) \o children \o SubSeq(old, to + 1, Len(old))]
  IN setParents(vs3, children, 1, v)

\* The ancestors of a view, nearest first.
RECURSIVE AncestorsFrom(_, _)
AncestorsFrom(vs, p) == IF p = 0 THEN <<>> ELSE <<p>> \o AncestorsFrom(vs, vs[p].parent)
Ancestors(vs, v) == AncestorsFrom(vs, vs[v].parent)
SeqRange(seq) == {seq[i] : i \in DOMAIN seq}

\* The first tree, rendered and clean: view 1 is the root, view 2 is its
\* child and the parent of every other view.
InitParent(v) == IF v <= 2 THEN v - 1 ELSE 2
InitChildren(v) ==
  IF v = 1 THEN <<2>>
  ELSE IF v = 2 THEN [i \in 1..(MaxViews - 2) |-> i + 2]
  ELSE <<>>
InitLength(v) == IF v = 1 THEN MaxViews - 2 ELSE IF v = 2 THEN MaxViews - 2 ELSE 1
InitViews ==
  [v \in ViewIds |->
     [parent |-> InitParent(v), children |-> InitChildren(v), dirty |-> Dirty.Not, dom |-> v,
      length |-> InitLength(v), breakAfter |-> 0]]
InitChildNodes == [n \in NodeIds |-> InitChildren(n)]

\* posAtStart and posBefore(view): the value, or the RangeError of posBefore.
RECURSIVE posAtStart(_, _)
RECURSIVE posBefore(_, _, _)
RECURSIVE posBeforeFrom(_, _, _, _, _)

\* for (let child of this.children) of posBefore, from child i with pos
posBeforeFrom(vs, p, view, i, pos) ==
  IF i > Len(vs[p].children) THEN [status |-> "RangeError", value |-> 0]
  ELSE IF vs[p].children[i] = view THEN [status |-> "ok", value |-> pos]
  ELSE posBeforeFrom(vs, p, view, i + 1,
                     pos + vs[vs[p].children[i]].length + vs[vs[p].children[i]].breakAfter)

posBeforeOfZero(vs, p, view) == posBeforeFrom(vs, p, view, 1, 0)

posBefore(vs, p, view) ==
  IF posAtStart(vs, p).status # "ok" THEN posAtStart(vs, p)
  ELSE posBeforeFrom(vs, p, view, 1, posAtStart(vs, p).value)

posAtStart(vs, v) ==
  IF vs[v].parent # 0 THEN posBefore(vs, vs[v].parent, v) ELSE [status |-> "ok", value |-> 0]

\* posAfter(view)
posAfter(vs, p, view) ==
  IF posBefore(vs, p, view).status # "ok" THEN posBefore(vs, p, view)
  ELSE [status |-> "ok", value |-> posBefore(vs, p, view).value + vs[view].length]

\* domBoundsAround(from, to, offset).  Places in the child list are counted
\* from 0 as in the source, -1 for none; a null node is 0.
NoBounds == [from |-> 0 - 1, to |-> 0 - 1, startDOM |-> 0, endDOM |-> 0]

\* The return statement of domBoundsAround, with the places found.
domBoundsOf(vs, d, v, fromI, fromStart, toI, toEnd) ==
  IF fromI # 0 /\ ~((fromI - 1) \in 0..(Len(vs[v].children) - 1))
    THEN [status |-> "TypeError", value |-> NoBounds]
  ELSE IF fromI # 0 /\ vs[vs[v].children[fromI]].dom = 0
    THEN [status |-> "TypeError", value |-> NoBounds]
  ELSE LET next == IF fromI # 0 THEN NextSibling(d, vs[vs[v].children[fromI]].dom) ELSE 0
       IN [status |-> "ok",
           value |-> [from |-> fromStart, to |-> toEnd,
                      startDOM |-> IF next # 0 THEN next ELSE FirstChild(d, vs[v].dom),
                      endDOM |-> IF toI < Len(vs[v].children) - 1
                                   THEN vs[vs[v].children[toI + 2]].dom ELSE 0]]

RECURSIVE domBoundsAround(_, _, _, _, _, _)
RECURSIVE domBoundsLoop(_, _, _, _, _, _, _, _, _)

\* The loop of domBoundsAround from child i (counted from 0) with pos.
domBoundsLoopTight(vs, d, v, from, to, i, pos, fromI, fromStart) ==
  IF i >= Len(vs[v].children) THEN domBoundsOf(vs, d, v, fromI, fromStart, 0 - 1, 0 - 1)
  ELSE LET child == vs[v].children[i + 1]
           end == pos + vs[child].length
           fromI1 == IF end > from /\ fromI = 0 - 1 THEN i ELSE fromI
           fromStart1 == IF end > from /\ fromI = 0 - 1 THEN pos ELSE fromStart
       IN IF pos < from /\ end > to THEN domBoundsAround(vs, d, child, from, to, pos)
          ELSE IF end >= to /\ fromI1 # 0 - 1 THEN domBoundsOf(vs, d, v, fromI1, fromStart1, i, end)
          ELSE domBoundsLoop(vs, d, v, from, to, i + 1, end + vs[child].breakAfter,
                             fromI1, fromStart1)

domBoundsLoop(vs, d, v, from, to, i, pos, fromI, fromStart) ==
  IF i >= Len(vs[v].children) THEN domBoundsOf(vs, d, v, fromI, fromStart, 0 - 1, 0 - 1)
  ELSE LET child == vs[v].children[i + 1]
           end == pos + vs[child].length
           fromI1 == IF end >= from /\ fromI = 0 - 1 THEN i ELSE fromI
           fromStart1 == IF end >= from /\ fromI = 0 - 1 THEN pos ELSE fromStart
       IN IF pos < from /\ end > to THEN domBoundsAround(vs, d, child, from, to, pos)
          ELSE IF end >= to THEN domBoundsOf(vs, d, v, fromI1, fromStart1, i, end)
          ELSE domBoundsLoop(vs, d, v, from, to, i + 1, end + vs[child].breakAfter,
                             fromI1, fromStart1)

domBoundsAround(vs, d, v, from, to, offset) ==
  domBoundsLoop(vs, d, v, from, to, 0, offset, 0 - 1, 0 - 1)

\* node.lastChild
LastChild(d, p) == IF d[p] = <<>> THEN 0 ELSE d[p][Len(d[p])]

\* The first loop of localPosFromDOM: from node up to the child of the
\* rendered node top that holds it, with the bias found on the way.
RECURSIVE climb(_, _, _, _)
climb(d, top, node, bias) ==
  LET parent == ParentNode(d, node)
      bias1 == IF bias = 0 /\ FirstChild(d, parent) # LastChild(d, parent)
                 THEN IF node = FirstChild(d, parent) THEN 0 - 1 ELSE 1
               ELSE bias
  IN IF parent = 0 THEN [status |-> "TypeError", node |-> 0, bias |-> bias]
     ELSE IF parent = top THEN [status |-> "ok", node |-> node, bias |-> bias]
     ELSE climb(d, top, parent, bias1)

\* while (after && !after.cmView) after = after.nextSibling
RECURSIVE skipToView(_, _, _)
skipToView(vs, d, after) ==
  IF after # 0 /\ CmView(vs, after) = 0 THEN skipToView(vs, d, NextSibling(d, after))
  ELSE after

\* The last loop of localPosFromDOM, from child i (counted from 1) with pos.
RECURSIVE posOfNode(_, _, _, _, _)
posOfNodeNoBreak(vs, v, after, i, pos) ==
  IF i > Len(vs[v].children) THEN [status |-> "TypeError", value |-> 0]
  ELSE IF vs[vs[v].children[i]].dom = after THEN [status |-> "ok", value |-> pos]
  ELSE posOfNode(vs, v, after, i + 1, pos + vs[vs[v].children[i]].length)

posOfNode(vs, v, after, i, pos) ==
  IF i > Len(vs[v].children) THEN [status |-> "TypeError", value |-> 0]
  ELSE IF vs[vs[v].children[i]].dom = after THEN [status |-> "ok", value |-> pos]
  ELSE posOfNode(vs, v, after, i + 1,
                 pos + vs[vs[v].children[i]].length + vs[vs[v].children[i]].breakAfter)

\* What localPosFromDOM returns once `after` is known.
posOfAfter(vs, d, v, after) ==
  IF after = FirstChild(d, vs[v].dom) THEN [status |-> "ok", value |-> 0]
  ELSE IF skipToView(vs, d, after) = 0 THEN [status |-> "ok", value |-> vs[v].length]
  ELSE posOfNode(vs, v, skipToView(vs, d, after), 1, 0)

\* localPosFromDOM(node, offset); max is maxOffset(node).
localPosFromDOM(vs, d, v, node, offset, max) ==
  IF node = vs[v].dom
    THEN posOfAfter(vs, d, v, IF offset < Len(d[node]) THEN d[node][offset + 1] ELSE 0)
  ELSE LET up == climb(d, vs[v].dom, node, IF max = 0 THEN 0 ELSE IF offset = 0 THEN 0 - 1 ELSE 1)
       IN IF up.status # "ok" THEN [status |-> up.status, value |-> 0]
          ELSE posOfAfter(vs, d, v, IF up.bias < 0 THEN up.node ELSE NextSibling(d, up.node))

\* maxOffset(node): the number of child nodes, or the length of the text
\* of a node that is a text.
MaxOffsets(vs, d, n) ==
  IF d[n] # <<>> THEN {Len(d[n])}
  ELSE IF n \in ViewIds THEN {0, vs[n].length} ELSE {0}

\* The trees the position queries are made on.  A tree is given by the
\* parent of every view (view 1 is the root, the parent of a view has a
\* smaller id, children stand in the order of their ids), the length of
\* every view without children and the breakAfter of every view; a view
\* with children is as long as its children and their breaks together,
\* and no break follows a last child.
TreeShapes == {par \in [ViewIds -> 0..MaxViews] : \A v \in ViewIds : par[v] < v /\ (par[v] = 0 <=> v = 1)}
ChildSet(par, v) == {c \in ViewIds : par[c] = v}
ChildrenOf(par, v) ==
  [i \in 1..Cardinality(ChildSet(par, v)) |->
     CHOOSE c \in ChildSet(par, v) : Cardinality({d \in ChildSet(par, v) : d < c}) = i - 1]
RECURSIVE SumOf(_, _)
SumOf(f, seq) == IF seq = <<>> THEN 0 ELSE f[seq[1]] + SumOf(f, Tail(seq))
RECURSIVE TreeLength(_, _, _, _)
TreeLength(par, len, brk, v) ==
  IF ChildSet(par, v) = {} THEN len[v]
  ELSE SumOf([c \in ViewIds |-> IF par[c] = v THEN TreeLength(par, len, brk, c) + brk[c] ELSE 0],
             ChildrenOf(par, v))
TreeSizes(par) ==
  {s \in [len : [ViewIds -> 0..MaxLeafLen], brk : [ViewIds -> {0, 1}]] :
     \A v \in ViewIds :
       /\ ChildSet(par, v) # {} => s.len[v] = 0
       /\ (par[v] = 0 \/ \A c \in ChildSet(par, par[v]) : c <= v) => s.brk[v] = 0}
TreeViews(par, s) ==
  [v \in ViewIds |->
     [parent |-> par[v], children |-> ChildrenOf(par, v), dirty |-> Dirty.Not, dom |-> v,
      length |-> TreeLength(par, s.len, s.brk, v), breakAfter |-> s.brk[v]]]
TreeChildNodes(par) ==
  [n \in NodeIds |-> IF n \in ViewIds THEN ChildrenOf(par, n) ELSE <<>>]

\* The state EditorState.create(doc, sel, ext) returned, and no transaction.
InitEditor(doc, sel, ext) ==
  /\ ~ConstructorThrows(doc, sel)
  /\ states = <<create(doc, sel, ext).state>>
  /\ valueObjs = (1 :> create(doc, sel, ext).values)
  /\ confCount = 1
  /\ tr = [t \in TrIds |-> NoTr]
  /\ arrays = [t \in TrIds |-> <<>>]
  /\ res = Result("create", 0, "ok", None, [state |-> 1])
  /\ applyRuns = [t \in TrIds |-> 0]
  /\ feLog = NoLog
  /\ work = 0

Init ==
  \E doc \in InitDocs, ext \in ExtensionInputs :
    \E sel \in InitSelections(Len(doc)) :
      /\ InitEditor(doc, sel, ext)
      /\ views = InitViews
      /\ childNodes = InitChildNodes
      /\ edits = 0
      /\ contentDOM = <<>>
      /\ records = 0

\* The calls made on the transactions ts.
Calls(ts) ==
  \/ \E t \in ts, s \in 1..Len(states), time \in TimeInputs : T(t, s, time)
  \/ \E t \in {u \in ts : Live(u)} :
       \E c \in ChangeInputs(Len(TrDoc(Tx(t)))), m \in {NoMirror, 0} :
          /\ m < ChangeSetLength(Tx(t).changes)
          /\ Change(t, c, m)
  \/ \E t \in {u \in ts : Live(u)} :
       \E i \in ReplaceInputs(Len(TrDoc(Tx(t)))) : Replace(t, i[1], i[2], i[3])
  \/ \E t \in {u \in ts : Live(u)} :
       \E sel \in SelectionInputs(Len(TrDoc(Tx(t)))) : SetSelection(t, sel)
  \/ \E t \in ts : ScrollIntoView(t)
  \/ \E t \in ts, a \in DOMAIN AnnotationInputs : Annotate(t, <<AnnotationInputs[a]>>)
  \/ \E t \in ts, r \in ReplaceExtInputs : ReplaceExtensions(t, r)
  \/ \E t \in ts, e \in ExtensionInputs : Reconfigure(t, e)
  \/ \E t \in ts, cb \in CallbackInputs : ForEachRange(t, cb)
  \/ \E t \in ts, text \in TextInputs : ReplaceSelection(t, text)
  \/ \E t \in ts : Apply(t, FALSE)
  \/ \E t \in ts : InvertedChanges(t)

\* One transaction at a time.
Next == Calls({1})

\* One transaction at a time, with field functions that can throw.
NextApply ==
  \/ Calls({1})
  \/ Apply(1, TRUE)

\* ------------------------------------------------------ states and fields
\* The outcome r of EditorState.create or fromJSON: a new state when it
\* returned, nothing when it threw.
NewState(op, r, arg) ==
  LET id == Len(states) + 1
  IN /\ Len(states) < MaxStates
     /\ work < MaxWork
     /\ work' = work + 1
     /\ IF r.status = "ok"
          THEN /\ states' = Append(states, r.state)
               /\ valueObjs' = (id :> r.values) @@ valueObjs
               /\ confCount' = confCount + 1
          ELSE UNCHANGED <<states, valueObjs, confCount>>
     /\ res' = [op |-> op, t |-> 0, status |-> r.status, arg |-> arg,
                value |-> [state |-> IF r.status = "ok" THEN id ELSE 0, inits |-> r.inits]]
     /\ feLog' = NoLog
     /\ UNCHANGED <<tr, arrays, applyRuns, viewVars, domVars>>

Create(doc, selection, ext) ==
  NewState("create", createAt(doc, selection, ext, confCount + 1, Len(states) + 1),
           [doc |-> doc, selection |-> selection, ext |-> ext])

\* EditorState.fromJSON(json, {extensions}); from is the state whose toJSON()
\* the json is, 0 when it is not made by toJSON.
FromJSON(json, ext, from) ==
  NewState("fromJSON", fromJSON(json, ext, confCount + 1, Len(states) + 1),
           [json |-> json, ext |-> ext, from |-> from])

\* state.field(f, require) on state s
Field(s, f, require) ==
  LET r == field(valueObjs[states[s].values], Fields(states[s].configuration), f, require)
  IN /\ work < MaxWork
     /\ work' = work + 1
     /\ res' = [op |-> "field", t |-> 0, status |-> r.status,
                arg |-> [state |-> s, f |-> f, require |-> require], value |-> r.value]
     /\ feLog' = NoLog
     /\ UNCHANGED <<states, valueObjs, confCount, tr, arrays, applyRuns, viewVars, domVars>>

\* The extensions a configuration was resolved from.
ExtensionsOf(conf) == [multi |-> conf.multi, fields |-> conf.fields]

CreateDocs ==
  { [kind |-> "absent", v |-> <<>>], [kind |-> "string", v |-> <<"a", "\r", "\n", "b">>],
    [kind |-> "Text", v |-> SubSeq(Letters, 1, MaxDocLen)] }

CreateSelections(n) ==
  { NoSelection, SelectionSingle(n + 1, n + 1),
    SelectionCreate(<<NewRange(0, 1), NewRange(n + 1, n + 2)>>, 0) }

\* Extensions that declare a field twice (fields 1, 3 and 4) and fields
\* whose initializer reads field 1 (fields 5 and 6).
CreateExtensions ==
  ExtensionInputs \cup
    {[multi |-> FALSE, fields |-> fs] :
       fs \in {<<1, 1>>, <<3, 3>>, <<4, 4>>, <<5, 1>>, <<1, 5>>, <<6, 1>>, <<6>>, <<5>>}}

\* A json value that toJSON does not make: none, one without doc, one whose
\* doc is a number.
BadJSON ==
  { [present |-> p, docType |-> d, doc |-> <<>>, selection |-> selectionToJSON(SelectionSingle(0, 0))] :
      p \in BOOLEAN, d \in {"missing", "number"} }

NextState ==
  \/ \E doc \in CreateDocs, ext \in CreateExtensions :
       \E sel \in CreateSelections(Len(DocOfConfig(doc))) : Create(doc, sel, ext)
  \/ \E s \in 1..Len(states) : FromJSON(toJSON(states[s]), ExtensionsOf(states[s].configuration), s)
  \/ \E json \in BadJSON, ext \in ExtensionInputs : FromJSON(json, ext, 0)
  \/ \E s \in 1..Len(states), f \in 1..4, require \in BOOLEAN : Field(s, f, require)
  \/ \E s \in 1..Len(states) : T(1, s, 10)
  \/ \E t \in {u \in {1} : Live(u)} :
       \E sel \in {SelectionSingle(Len(TrDoc(Tx(t))) + 1, 0),
                    SelectionCreate(<<NewRange(0, 1), NewRange(1, 2)>>, 1)} : SetSelection(t, sel)
  \/ \E t \in {u \in {1} : Live(u)} : Replace(t, 1, Len(TrDoc(Tx(t))), <<>>)
  \/ ReplaceExtensions(1, [multi |-> FALSE])
  \/ Reconfigure(1, [multi |-> TRUE, fields |-> <<2>>])
  \/ Apply(1, FALSE)

SpecState == Init /\ [][NextState]_vars

Spec == Init /\ [][Next]_vars
SpecApply == Init /\ [][NextApply]_vars

\* Two transactions side by side, started from the created state or from a
\* state one of them produced, with fewer inputs for each call.
PairReplaceInputs(n) == {<<0, n, <<>>>>, <<0, 0, <<"X">>>>, <<n, n + 1, <<"X">>>>}
PairSelectionInputs(n) ==
  {SelectionSingle(n + 1, n + 1), SelectionCreate(<<NewRange(1, 2), NewRange(2, 3)>>, 0)}

NextPair ==
  \/ \E t \in TrIds, s \in 1..Len(states), time \in TimeInputs : T(t, s, time)
  \/ \E t \in TrIds : Change(t, NewChange(1, 1, <<<<"Y">>, <<>>>>), NoMirror)
  \/ \E t \in {u \in TrIds : Live(u)} :
       \E i \in PairReplaceInputs(Len(TrDoc(Tx(t)))) : Replace(t, i[1], i[2], i[3])
  \/ \E t \in {u \in TrIds : Live(u)} :
       \E sel \in PairSelectionInputs(Len(TrDoc(Tx(t)))) : SetSelection(t, sel)
  \/ \E t \in TrIds : ScrollIntoView(t)
  \/ \E t \in TrIds : Annotate(t, <<AnnotationInputs[1]>>)
  \/ \E t \in TrIds : ReplaceExtensions(t, [multi |-> FALSE])
  \/ \E t \in TrIds : Reconfigure(t, [multi |-> TRUE,  fields |-> <<1, 2>>])
  \/ \E t \in TrIds : ForEachRange(t, [kind |-> "insertBefore"])
  \/ \E t \in TrIds : ReplaceSelection(t, <<"X">>)
  \/ \E t \in TrIds : Apply(t, FALSE)
  \/ \E t \in TrIds : InvertedChanges(t)

SpecPair == Init /\ [][NextPair]_vars


\* ------------------------------------------- calls on the content views
ViewResult(op, status, arg, value) ==
  [op |-> op, t |-> 0, status |-> status, arg |-> arg, value |-> value]

\* v.markDirty(andParent)
MarkDirty(v, andParent) ==
  /\ views' = markDirty(views, v, andParent).views
  /\ res' = ViewResult("markDirty", "ok", [view |-> v, andParent |-> andParent],
                       [visited |-> markDirty(views, v, andParent).visited])
  /\ UNCHANGED <<childNodes, edits, editorVars, domVars>>

\* v.sync(); an error leaves what the call did up to it.
Sync(v) ==
  /\ views[v].dom # 0
  /\ LET r == sync(SyncStart(views, childNodes), v)
     IN /\ views' = r.views
        /\ childNodes' = r.dom
        /\ res' = ViewResult("sync", r.status, [view |-> v],
                             [ops |-> r.ops, synced |-> r.synced])
  /\ UNCHANGED <<edits, editorVars, domVars>>

\* The update of the whole tree: root.sync(); root.dirty = Dirty.Not
SyncRoot(v) ==
  /\ views[v].dom # 0
  /\ views[v].parent = 0
  /\ LET r == syncChild(SyncStart(views, childNodes), v)
     IN /\ views' = r.views
        /\ childNodes' = r.dom
        /\ res' = ViewResult("syncRoot", r.status, [view |-> v],
                             [ops |-> r.ops, synced |-> r.synced])
  /\ UNCHANGED <<edits, editorVars, domVars>>

\* v.replaceChildren(from, to, children)
ReplaceChildren(v, from, to, children) ==
  /\ edits < MaxEdits
  /\ edits' = edits + 1
  /\ views' = replaceChildren(views, v, from, to, children)
  /\ res' = ViewResult("replaceChildren", "ok",
                       [view |-> v, from |-> from, to |-> to, children |-> children], None)
  /\ UNCHANGED <<childNodes, editorVars, domVars>>

\* The views replaceChildren of v may be given: views without a parent, or
\* that the call removes, that are not the root of the first tree and not
\* above v.
NewChildren(v, from, to) ==
  LET free == {c \in ViewIds \ {1, v} :
                 /\ ~(c \in SeqRange(Ancestors(views, v)))
                 /\ \/ views[c].parent = 0
                    \/ \E i \in (from + 1)..to : views[v].children[i] = c}
  IN {<<>>} \cup {<<c>> : c \in free}

\* A change of the rendered tree from outside: a node is removed.
OutsideRemove(n) ==
  /\ edits < MaxEdits
  /\ edits' = edits + 1
  /\ ParentNode(childNodes, n) # 0
  /\ childNodes' = removeChild(childNodes, n)
  /\ res' = ViewResult("outsideRemove", "ok", [node |-> n], None)
  /\ UNCHANGED <<views, editorVars, domVars>>

\* A change of the rendered tree from outside: a node of no view is put
\* into the rendered node of a view, before pos (at the end when pos is 0).
OutsideInsert(p, n, pos) ==
  /\ edits < MaxEdits
  /\ edits' = edits + 1
  /\ views[p].dom = p
  /\ pos # n
  /\ pos = 0 \/ ParentNode(childNodes, pos) = p
  /\ childNodes' = insertBefore(childNodes, p, n, pos).d
  /\ res' = ViewResult("outsideInsert", "ok", [node |-> n, parent |-> p, pos |-> pos], None)
  /\ UNCHANGED <<views, editorVars, domVars>>

NextView ==
  \/ \E v \in ViewIds, andParent \in BOOLEAN : MarkDirty(v, andParent)
  \/ \E v \in ViewIds : Sync(v)
  \/ \E v \in ViewIds : SyncRoot(v)
  \/ \E v \in ViewIds :
       \E from \in 0..Len(views[v].children) :
         \E to \in from..Len(views[v].children) :
           \E children \in NewChildren(v, from, to) : ReplaceChildren(v, from, to, children)
  \/ \E n \in NodeIds : OutsideRemove(n)
  \/ \E p \in ViewIds, n \in ForeignNodes, pos \in NodeIds \cup {0} : OutsideInsert(p, n, pos)

\* The content views next to one editor state.
InitView ==
  /\ Init
  /\ Len(states[1].doc) = 0
  /\ states[1].configuration.multi = FALSE

SpecView == InitView /\ [][NextView]_vars

\* ----------------------------------------------- positions in the views
\* p.posBefore(v), p.posAfter(v), v.posAtStart, asked of a tree as it was
\* built.
PosBefore(p, v) ==
  /\ res.op = "create"
  /\ res' = ViewResult("posBefore", posBefore(views, p, v).status, [view |-> p, child |-> v],
                       [pos |-> posBefore(views, p, v).value])
  /\ UNCHANGED <<viewVars, domVars, editorVars>>

PosAfter(p, v) ==
  /\ res.op = "create"
  /\ res' = ViewResult("posAfter", posAfter(views, p, v).status, [view |-> p, child |-> v],
                       [pos |-> posAfter(views, p, v).value])
  /\ UNCHANGED <<viewVars, domVars, editorVars>>

PosAtStart(v) ==
  /\ res.op = "create"
  /\ res' = ViewResult("posAtStart", posAtStart(views, v).status, [view |-> v],
                       [pos |-> posAtStart(views, v).value])
  /\ UNCHANGED <<viewVars, domVars, editorVars>>

\* v.domBoundsAround(from, to)
DomBoundsAround(v, from, to) ==
  /\ res.op = "create"
  /\ res' = ViewResult("domBoundsAround", domBoundsAround(views, childNodes, v, from, to, 0).status,
                       [view |-> v, from |-> from, to |-> to],
                       domBoundsAround(views, childNodes, v, from, to, 0).value)
  /\ UNCHANGED <<viewVars, domVars, editorVars>>

\* v.localPosFromDOM(node, offset) for a node inside the rendered node of v
LocalPosFromDOM(v, node, offset, max) ==
  /\ res.op = "create"
  /\ res' = ViewResult("localPosFromDOM",
                       localPosFromDOM(views, childNodes, v, node, offset, max).status,
                       [view |-> v, node |-> node, offset |-> offset, max |-> max],
                       [pos |-> localPosFromDOM(views, childNodes, v, node, offset, max).value])
  /\ UNCHANGED <<viewVars, domVars, editorVars>>

NextPos ==
  \/ \E v \in {u \in ViewIds : views[u].children # <<>>} :
       \E node \in {n \in NodeIds : Contains(childNodes, views[v].dom, n)} :
         \E max \in MaxOffsets(views, childNodes, node) : \E offset \in 0..max :
           LocalPosFromDOM(v, node, offset, max)
  \/ \E v \in {u \in ViewIds : views[u].children # <<>>} :
       \E from \in 0..views[v].length : \E to \in from..views[v].length :
         DomBoundsAround(v, from, to)
  \/ \E p \in ViewIds, v \in ViewIds : PosBefore(p, v)
  \/ \E p \in ViewIds, v \in ViewIds : PosAfter(p, v)
  \/ \E v \in ViewIds : PosAtStart(v)

\* A rendered and clean tree of every shape and size, next to one editor
\* state.
InitPos ==
  /\ InitEditor(<<>>, SelectionSingle(0, 0), [multi |-> FALSE, fields |-> <<1>>])
  /\ \E par \in TreeShapes : \E s \in TreeSizes(par) :
        /\ views = TreeViews(par, s)
        /\ childNodes = TreeChildNodes(par)
  /\ edits = 0
  /\ contentDOM = <<>>
  /\ records = 0

SpecPos == InitPos /\ [][NextPos]_vars

\* ------------------------------------------------------------------ search
\* The sequences over the letters of `alphabet` that are at most n long.
RECURSIVE StringsUpTo(_, _)
StringsUpTo(alphabet, n) ==
  IF n = 0 THEN {<<>>}
  ELSE StringsUpTo(alphabet, n - 1) \cup
       {Append(str, ch) : str \in StringsUpTo(alphabet, n - 1), ch \in alphabet}

SearchLetters == {"a", "b"}
SearchDocs == StringsUpTo(SearchLetters, MaxSearchLen)
SearchStrings == StringsUpTo(SearchLetters, MaxQueryLen)
ReplaceStrings == {<<>>, <<"b">>, <<"a", "a">>}
\* FindPrevChunkSize is 10000 in search.ts; the loop is run with every chunk
\* size of 1..MaxChunk, so that the ranges of the documents span several
\* chunks.
ChunkSizes == 1..MaxChunk

\* The matches that query.cursor(doc, from, to) steps through: every
\* occurrence of the search string inside [from, to], in ascending order.
RECURSIVE cursorFrom(_, _, _, _)
cursorFrom(doc, search, m, to) ==
  IF m + Len(search) > to THEN <<>>
  ELSE IF SubSeq(doc, m + 1, m + Len(search)) = search
    THEN <<[from |-> m, to |-> m + Len(search)]>> \o cursorFrom(doc, search, m + 1, to)
  ELSE cursorFrom(doc, search, m + 1, to)

cursor(doc, search, from, to) == cursorFrom(doc, search, from, to)

\* while (!cursor.next().done) range = cursor.value
LastOf(ms) == IF ms = <<>> THEN None ELSE ms[Len(ms)]

\* findPrevInRange(query, doc, from, to), from the iteration with `pos` on;
\* `left` bounds the iterations that are followed.
RECURSIVE findPrevLoop(_, _, _, _, _, _)
findPrevLoopTight(search, doc, from, pos, chunk, left) ==
  LET start == Max(from, pos - chunk)
      range == LastOf(cursor(doc, search, start, pos))
  IN IF left = 0 THEN [status |-> "running", range |-> None]
     ELSE IF range # None THEN [status |-> "ok", range |-> range]
     ELSE IF start = from THEN [status |-> "ok", range |-> None]
     ELSE findPrevLoop(search, doc, from, pos - chunk, chunk, left - 1)

findPrevLoop(search, doc, from, pos, chunk, left) ==
  LET start == Max(from, pos - chunk - Len(search))
      range == LastOf(cursor(doc, search, start, pos))
  IN IF left = 0 THEN [status |-> "running", range |-> None]
     ELSE IF range # None THEN [status |-> "ok", range |-> range]
     ELSE IF start = from THEN [status |-> "ok", range |-> None]
     ELSE findPrevLoop(search, doc, from, pos - chunk, chunk, left - 1)

findPrevInRange(search, doc, from, to, chunk) ==
  findPrevLoop(search, doc, from, to, chunk, Len(doc) + 2)

\* The loop of replaceAll over the matches ms, from match i on.
RECURSIVE replaceAllLoop(_, _, _, _)
replaceAllUnmapped(w, ms, i, text) ==
  IF i > Len(ms) THEN Outcome(w, "ok")
  ELSE LET o == replace(w, ms[i].from, ms[i].to, text)
       IN IF o.status # "ok" THEN o ELSE replaceAllLoop(o.w, ms, i + 1, text)

replaceAllLoop(w, ms, i, text) ==
  IF i > Len(ms) THEN Outcome(w, "ok")
  ELSE LET o == replace(w, mapPos(w.changes.changes, ms[i].from, 1),
                        mapPos(w.changes.changes, ms[i].to, 0 - 1), text)
       IN IF o.status # "ok" THEN o ELSE replaceAllLoop(o.w, ms, i + 1, text)

\* new Transaction(state, time), with its docs array in place
NewTransaction(s, time) ==
  [startState |-> s, changes |-> ChangeSetEmpty, docs |-> <<>>,
   selection |-> states[s].selection,
   annotations |-> <<[type |-> "time", value |-> time]>>,
   flags |-> 0, configuration |-> states[s].configuration, state |-> 0]

\* The editor view holds the newest state.
ViewState == Len(states)

\* findPrevInRange(query, view.state.doc, from, to)
FindPrevInRange(search, from, to, chunk) ==
  /\ res.op = "create"
  /\ res' = Result("findPrevInRange", 0,
                   findPrevInRange(search, states[ViewState].doc, from, to, chunk).status,
                   [search |-> search, from |-> from, to |-> to, chunk |-> chunk],
                   [range |-> findPrevInRange(search, states[ViewState].doc, from, to, chunk).range])
  /\ feLog' = NoLog
  /\ UNCHANGED <<states, valueObjs, confCount, tr, arrays, applyRuns, work, viewVars, domVars>>

\* replaceAll(view) with the search panel open, the query being
\* (search, text); view.dispatch(tr) makes tr.apply() the state of the view.
ReplaceAll(t, search, text) ==
  /\ res.op = "create"
  /\ ~Live(t)
  /\ LET this == ViewState
         doc0 == states[this].doc
         o == replaceAllLoop(NewTransaction(this, 10), cursor(doc0, search, 0, Len(doc0)), 1, text)
         w == o.w
         doc == TrDoc(w)
         id == Len(states) + 1
         obj == NewValuesId(this)
         base == IF obj \in DOMAIN valueObjs THEN valueObjs[obj] ELSE <<>>
         arg == [search |-> search, replace |-> text]
     IN IF search = <<>>
          THEN /\ res' = Result("replaceAll", 0, "ok", arg, [returned |-> FALSE, dispatched |-> 0])
               /\ UNCHANGED <<states, valueObjs, tr, arrays, applyRuns>>
        ELSE IF o.status # "ok"
          THEN /\ res' = Result("replaceAll", 0, o.status, arg, None)
               /\ UNCHANGED <<states, valueObjs, tr, arrays, applyRuns>>
        ELSE IF ~docChanged(w)
          THEN /\ res' = Result("replaceAll", 0, "ok", arg, [returned |-> FALSE, dispatched |-> 0])
               /\ UNCHANGED <<states, valueObjs, tr, arrays, applyRuns>>
        ELSE IF ConstructorThrows(doc, w.selection)
          THEN /\ res' = Result("replaceAll", t, "RangeError", arg, None)
               /\ tr' = [tr EXCEPT ![t] = [w EXCEPT !.docs = NewDocsArray(t)]]
               /\ arrays' = [arrays EXCEPT ![NewDocsArray(t)] = w.docs]
               /\ applyRuns' = [applyRuns EXCEPT ![t] = @ + 1]
               /\ UNCHANGED <<states, valueObjs>>
        ELSE /\ states' = Append(states, [configuration |-> w.configuration, values |-> obj,
                                          doc |-> doc, selection |-> w.selection])
             /\ valueObjs' = (obj :> (AppliedValues(this, w, doc) @@ base)) @@ valueObjs
             /\ tr' = [tr EXCEPT ![t] = [w EXCEPT !.docs = NewDocsArray(t), !.state = id]]
             /\ arrays' = [arrays EXCEPT ![NewDocsArray(t)] = w.docs]
             /\ applyRuns' = [applyRuns EXCEPT ![t] = @ + 1]
             /\ res' = Result("replaceAll", t, "ok", arg, [returned |-> TRUE, dispatched |-> 1])
  /\ feLog' = NoLog
  /\ UNCHANGED <<confCount, work, viewVars, domVars>>

NextSearch ==
  \/ \E search \in SearchStrings \ {<<>>}, chunk \in ChunkSizes :
       \E from \in 0..Len(states[ViewState].doc), to \in 0..Len(states[ViewState].doc) :
         FindPrevInRange(search, from, to, chunk)
  \/ \E search \in SearchStrings, text \in ReplaceStrings : ReplaceAll(1, search, text)

InitSearch ==
  /\ \E doc \in SearchDocs :
       InitEditor(doc, SelectionSingle(0, 0), [multi |-> FALSE, fields |-> <<1>>])
  /\ views = InitViews
  /\ childNodes = InitChildNodes
  /\ edits = 0
  /\ contentDOM = <<>>
  /\ records = 0

SpecSearch == InitSearch /\ [][NextSearch]_vars

\* ------------------------------------------- changes made from outside
\* The content node holds line nodes (block elements with a text, a break
\* or a collapsed range in them), and, after a change from outside, texts
\* and breaks of its own.  A collapsed range is rendered by a node that
\* shows nothing and stands for the text it hides.
LineNode(items) == [kind |-> "line", text |-> <<>>, items |-> items]
TextNode(text) == [kind |-> "text", text |-> text, items |-> <<>>]
CollapsedNode(text) == [kind |-> "collapsed", text |-> text, items |-> <<>>]
BrNode == [kind |-> "br", text |-> <<>>, items |-> <<>>]

\* A character as it is read from the rendered tree: shown, or hidden by a
\* collapsed range.
Shown(ch) == [ch |-> ch, hidden |-> FALSE]
Hidden(ch) == [ch |-> ch, hidden |-> TRUE]
LineBreak == Shown("\n")

\* The document with the characters of (hideFrom, hideTo] hidden.
Marked(doc, hideFrom, hideTo) ==
  [i \in 1..Len(doc) |-> IF hideFrom < i /\ i <= hideTo THEN Hidden(doc[i]) ELSE Shown(doc[i])]

Chars(marked) == [i \in 1..Len(marked) |-> marked[i].ch]

RECURSIVE ShownChars(_)
ShownChars(marked) ==
  IF marked = <<>> THEN <<>>
  ELSE (IF Head(marked).hidden THEN <<>> ELSE <<Head(marked).ch>>) \o ShownChars(Tail(marked))

\* The nodes in a line node for the marked characters of one line.
RECURSIVE Items(_)
Items(marked) ==
  IF marked = <<>> THEN <<>>
  ELSE LET rest == Items(Tail(marked))
           h == Head(marked)
           kind == IF h.hidden THEN "collapsed" ELSE "text"
       IN IF rest # <<>> /\ rest[1].kind = kind
            THEN <<[rest[1] EXCEPT !.text = <<h.ch>> \o @]>> \o Tail(rest)
          ELSE <<[kind |-> kind, text |-> <<h.ch>>, items |-> <<>>]>> \o rest

\* The line nodes the view draws for a marked document.
RECURSIVE RenderFrom(_, _, _)
RenderFrom(marked, i, cur) ==
  IF i > Len(marked) THEN <<LineNode(Items(cur))>>
  ELSE IF marked[i] = LineBreak
    THEN <<LineNode(Items(cur))>> \o RenderFrom(marked, i + 1, <<>>)
  ELSE RenderFrom(marked, i + 1, Append(cur, marked[i]))

Render(marked) == RenderFrom(marked, 1, <<>>)

\* What the reconciler reads from a node: the text of a text, the hidden
\* text of a collapsed range, a line break for a break that has a next
\* sibling and nothing for one that has none, and the content of a line.
readLeaf(node, hasNext) ==
  IF node.kind = "text" THEN [k \in 1..Len(node.text) |-> Shown(node.text[k])]
  ELSE IF node.kind = "collapsed" THEN [k \in 1..Len(node.text) |-> Hidden(node.text[k])]
  ELSE IF hasNext THEN <<LineBreak>> ELSE <<>>

RECURSIVE readItems(_, _)
readItems(items, i) ==
  IF i > Len(items) THEN <<>>
  ELSE readLeaf(items[i], i < Len(items)) \o readItems(items, i + 1)

readNode(nodes, i) ==
  IF nodes[i].kind = "line" THEN readItems(nodes[i].items, 1)
  ELSE readLeaf(nodes[i], i < Len(nodes))

isBlockElement(node) == node.kind = "line"

\* The child nodes of the content node read in order, with a line break
\* after a block element, and before one that does not follow a break.
RECURSIVE readRange(_, _)
readRange(nodes, i) ==
  IF i > Len(nodes) THEN <<>>
  ELSE readNode(nodes, i)
       \o (IF i < Len(nodes) /\ (isBlockElement(nodes[i]) \/
                                  (isBlockElement(nodes[i + 1]) /\ nodes[i].kind # "br"))
             THEN <<LineBreak>> ELSE <<>>)
       \o readRange(nodes, i + 1)

\* The text the reconciler reads from the rendered tree, and the text the
\* rendered tree shows.
ReadText(nodes) == Chars(readRange(nodes, 1))
ShownText(nodes) == ShownChars(readRange(nodes, 1))

\* The lengths of the longest common start and end of two texts; the end
\* that is counted does not reach into the start.
RECURSIVE commonPrefix(_, _, _)
commonPrefix(a, b, n) ==
  IF n < Len(a) /\ n < Len(b) /\ a[n + 1] = b[n + 1] THEN commonPrefix(a, b, n + 1) ELSE n

RECURSIVE commonSuffix(_, _, _, _)
commonSuffix(a, b, least, n) ==
  IF /\ Len(a) - n > least /\ Len(b) - n > least
     /\ a[Len(a) - n] = b[Len(b) - n]
    THEN commonSuffix(a, b, least, n + 1)
  ELSE n

\* The one change that turns the document `old` into the text `new`.
findDiff(old, new) ==
  LET pre == commonPrefix(old, new, 0)
      suf == commonSuffix(old, new, pre, 0)
  IN [from |-> pre, to |-> Len(old) - suf, text |-> SubSeq(new, pre + 1, Len(new) - suf)]

\* The records that are left after a flush took them.
takeRecordsKept(pending) == pending
takeRecords(pending) == 0

\* A change of the rendered tree from outside; the observer notes a record.
Mutation(op, arg, nodes) ==
  /\ edits < MaxEdits
  /\ records > 0 \/ \E t \in TrIds : ~Live(t)
  /\ edits' = edits + 1
  /\ records' = records + 1
  /\ contentDOM' = nodes
  /\ res' = ViewResult(op, "ok", arg, None)
  /\ UNCHANGED <<views, childNodes, editorVars>>

\* textNode.nodeValue = text, for the k-th node of the l-th line
SetNodeValue(l, k, text) ==
  /\ contentDOM[l].kind = "line"
  /\ contentDOM[l].items[k].kind = "text"
  /\ contentDOM[l].items[k].text # text
  /\ Mutation("nodeValue", [line |-> l, node |-> k, text |-> text],
              [contentDOM EXCEPT ![l].items[k].text = text])

\* line.appendChild(document.createElement("br"))
AppendBreak(l) ==
  /\ contentDOM[l].kind = "line"
  /\ Mutation("appendBreak", [line |-> l],
              [contentDOM EXCEPT ![l].items = Append(@, BrNode)])

\* contentDOM.childNodes[i].remove(), i counted from 1
RemoveNode(i) ==
  Mutation("remove", [node |-> i],
           SubSeq(contentDOM, 1, i - 1) \o SubSeq(contentDOM, i + 1, Len(contentDOM)))

\* contentDOM.appendChild(div), the div holding the text
AppendBlock(text) ==
  Mutation("appendBlock", [text |-> text],
           Append(contentDOM, LineNode(IF text = <<>> THEN <<>> ELSE <<TextNode(text)>>)))

\* contentDOM.textContent = text
SetTextContent(text) ==
  Mutation("textContent", [text |-> text], IF text = <<>> THEN <<>> ELSE <<TextNode(text)>>)

\* contentDOM.innerHTML = a text, a break and the line nodes that are there
\* from the second one on
SetInnerHTML(text) ==
  /\ Len(contentDOM) >= 1
  /\ Mutation("innerHTML", [text |-> text], <<TextNode(text), BrNode>> \o Tail(contentDOM))

\* observer.flush(): with records pending, the text of the rendered tree is
\* read and compared with the document, the difference is dispatched as a
\* transaction with one change, and the view draws the new state.
Flush(t) ==
  /\ ~Live(t)
  /\ \A u \in TrIds : u < t => Live(u)
  /\ LET this == ViewState
         diff == findDiff(states[this].doc, ReadText(contentDOM))
         o == replace(NewTransaction(this, 10), diff.from, diff.to, diff.text)
         w == o.w
         doc == TrDoc(w)
         id == Len(states) + 1
         obj == NewValuesId(this)
         base == IF obj \in DOMAIN valueObjs THEN valueObjs[obj] ELSE <<>>
     IN IF records = 0
          THEN /\ res' = ViewResult("flush", "ok", None, [records |-> 0, dispatched |-> 0])
               /\ UNCHANGED <<states, valueObjs, tr, arrays, applyRuns, domVars>>
        ELSE IF o.status # "ok" \/ ConstructorThrows(doc, w.selection)
          THEN /\ res' = ViewResult("flush", "RangeError", None, [records |-> records, dispatched |-> 0])
               /\ records' = takeRecords(records)
               /\ UNCHANGED <<states, valueObjs, tr, arrays, applyRuns, contentDOM>>
        ELSE IF ~docChanged(w)
          THEN /\ res' = ViewResult("flush", "ok", None, [records |-> records, dispatched |-> 0])
               /\ records' = takeRecords(records)
               /\ contentDOM' = Render(readRange(contentDOM, 1))
               /\ UNCHANGED <<states, valueObjs, tr, arrays, applyRuns>>
        ELSE /\ states' = Append(states, [configuration |-> w.configuration, values |-> obj,
                                          doc |-> doc, selection |-> w.selection])
             /\ valueObjs' = (obj :> (AppliedValues(this, w, doc) @@ base)) @@ valueObjs
             /\ tr' = [tr EXCEPT ![t] = [w EXCEPT !.docs = NewDocsArray(t), !.state = id]]
             /\ arrays' = [arrays EXCEPT ![NewDocsArray(t)] = w.docs]
             /\ applyRuns' = [applyRuns EXCEPT ![t] = @ + 1]
             /\ records' = takeRecords(records)
             /\ contentDOM' = Render(readRange(contentDOM, 1))
             /\ res' = [ViewResult("flush", "ok", None, [records |-> records, dispatched |-> 1])
                         EXCEPT !.t = t]
  /\ feLog' = NoLog
  /\ UNCHANGED <<confCount, work, viewVars>>

NodeTexts == {<<>>, <<"x">>, <<"a", "x">>}

NextDom ==
  \/ \E l \in 1..Len(contentDOM) : \E k \in 1..Len(contentDOM[l].items), text \in NodeTexts :
       SetNodeValue(l, k, text)
  \/ \E l \in 1..Len(contentDOM) : AppendBreak(l)
  \/ \E i \in 1..Len(contentDOM) : RemoveNode(i)
  \/ \E text \in NodeTexts : AppendBlock(text)
  \/ \E text \in NodeTexts : SetTextContent(text)
  \/ \E text \in NodeTexts \ {<<>>} : SetInnerHTML(text)
  \/ \E t \in TrIds : Flush(t)

\* The documents the editor is shown with, and the range a decoration
\* collapses in them (none when the ends are equal).
DomDocs == {<<"a", "b", "\n", "c">>, <<"a", "\n", "b", "\n", "c">>, <<"a", "b", "c", "d">>}
CollapsedRanges(doc) == {<<0, 0>>} \cup (IF "\n" \in {doc[i] : i \in 1..Len(doc)} THEN {} ELSE {<<1, 3>>})

InitDom ==
  /\ \E doc \in DomDocs : \E hide \in CollapsedRanges(doc) :
       /\ InitEditor(doc, SelectionSingle(0, 0), [multi |-> FALSE, fields |-> <<1>>])
       /\ contentDOM = Render(Marked(doc, hide[1], hide[2]))
  /\ views = InitViews
  /\ childNodes = InitChildNodes
  /\ edits = 0
  /\ records = 0

SpecDom == InitDom /\ [][NextDom]_vars

\* ================================================================== claims
UpdatingCalls ==
  {"change", "replace", "replaceSelection", "forEachRange", "setSelection",
   "scrollIntoView", "annotate", "replaceExtensions", "reconfigure"}

StartDoc(t) == states[tr[t].startState].doc

\* The document after the changes of transaction t, computed from the start
\* document and the changes alone.
DocAfterChanges(t) == ApplyAll(tr[t].changes.changes, StartDoc(t))

\* Transaction t and its docs array are the same before and after the step.
SameTransaction(t) ==
  /\ tr'[t] = tr[t]
  /\ arrays'[tr[t].docs] = arrays[tr[t].docs]

\* The step is a call of one of the operations ops on transaction t.
CallOn(t, ops) == res'.t = t /\ res'.op \in ops

\* C1: once apply() has returned a state for a transaction, every later call
\* of an updating method on it fails with an error and leaves the
\* transaction (changes, docs, selection, annotations, flags, configuration,
\* cached state) as it was.
C1_FrozenRejectsUpdates ==
  [][\A t \in TrIds :
       (Live(t) /\ tr[t].state # 0 /\ CallOn(t, UpdatingCalls))
         => (res'.status = "Error" /\ SameTransaction(t))]_vars

C1_Witness ==
  /\ res.op = "replaceSelection"
  /\ res.status = "Error"
  /\ tr[res.t].state # 0
  /\ docChanged(Tx(res.t))

\* C2 as stated: applyTransaction is executed exactly once for a transaction
\* that has been applied, however often apply() was called.
C2_Original ==
  \A t \in TrIds : (Live(t) /\ tr[t].state # 0) => applyRuns[t] = 1

\* C2: the apply() that succeeds executes applyTransaction once and caches
\* the state; every later apply() returns that same state object and does
\* not execute applyTransaction again.
C2_ApplyCached ==
  [][\A t \in TrIds :
       /\ (Live(t) /\ tr[t].state = 0 /\ tr'[t].state # 0)
            => (applyRuns'[t] = applyRuns[t] + 1 /\ res'.value = [state |-> tr'[t].state])
       /\ (Live(t) /\ tr[t].state # 0)
            => /\ applyRuns'[t] = applyRuns[t]
               /\ tr'[t].state = tr[t].state
               /\ Len(states') = Len(states)
               /\ CallOn(t, {"apply"}) => (res'.status = "ok" /\ res'.value = [state |-> tr[t].state])]_vars

C2_Witness ==
  /\ res.op = "apply"
  /\ res.status = "ok"
  /\ applyRuns[res.t] = 2
  /\ res.value = [state |-> tr[res.t].state]

\* C3: the state apply() returns has the start document with the changes of
\* the transaction applied in order as its document, the pending selection
\* as its selection and the configuration of the transaction.
C3_AppliedState ==
  \A t \in TrIds :
    (Live(t) /\ tr[t].state # 0) =>
      LET new == states[tr[t].state]
      IN /\ new.doc = DocAfterChanges(t)
         /\ new.selection = tr[t].selection
         /\ new.configuration = tr[t].configuration

C3_Witness ==
  \E t \in TrIds :
    /\ Live(t) /\ tr[t].state # 0
    /\ StartDoc(t) = <<"a", "b", "c">>
    /\ tr[t].changes.changes = <<NewChange(1, 2, <<<<"X">>>>)>>
    /\ states[tr[t].state].doc = <<"a", "X", "c">>
    /\ docChanged(Tx(t))

\* C4: no call on a transaction changes a state that exists (its document,
\* selection, configuration, field values), and a call on one transaction
\* leaves the other transactions as they were.
C4_StatesImmutable ==
  [][/\ \A i \in 1..Len(states) :
          /\ states'[i] = states[i]
          /\ valueObjs'[states[i].values] = valueObjs[states[i].values]
     /\ \A t \in TrIds, u \in TrIds :
          (t # u /\ Live(u) /\ res'.t = t) => SameTransaction(u)]_vars

C4_Witness ==
  /\ Live(1) /\ Live(2)
  /\ tr[1].startState = tr[2].startState
  /\ tr[1].state # 0
  /\ docChanged(Tx(1)) /\ docChanged(Tx(2))
  /\ arrays[tr[1].docs] # arrays[tr[2].docs]
  /\ tr[2].state = 0


\* The change handed to the change or replace call that the step is.
StepChange == res'.arg.change

\* The characters a change inserts.
Inserted(c) == TextOf(c.text)

OutOfRange(c, doc) == c.from < 0 \/ c.to < c.from \/ c.to > Len(doc)
TrueEmpty(c) == c.from = c.to /\ Inserted(c) = <<>>

\* C5: on an open transaction a change that is not an empty edit and whose
\* range is not inside the current document (the start document with the
\* changes added so far) fails with a range error and leaves changes, docs,
\* selection and flags as they were.
C5_InvalidChangeRejected ==
  [][\A t \in TrIds :
       (/\ Live(t) /\ tr[t].state = 0
        /\ CallOn(t, {"change", "replace"})
        /\ ~TrueEmpty(StepChange)
        /\ OutOfRange(StepChange, DocAfterChanges(t)))
         => (res'.status = "RangeError" /\ SameTransaction(t))]_vars

\* a change inside the start document but past the end of the current one
C5_Witness ==
  /\ res.op \in {"change", "replace"}
  /\ res.status = "RangeError"
  /\ docChanged(Tx(res.t))
  /\ ~OutOfRange(res.arg.change, StartDoc(res.t))
  /\ OutOfRange(res.arg.change, DocAfterChanges(res.t))

\* The step adds changes inside a forEachRange or replaceSelection call.
CallbackChanged(t) ==
  /\ CallOn(t, {"forEachRange", "replaceSelection"})
  /\ \E k \in 1..Len(feLog'.calls) : feLog'.calls[k].after > feLog'.calls[k].before

\* C6: on an open transaction a change with from = to that inserts nothing
\* is a no-op wherever it lies; a change that is not empty and goes through
\* makes docChanged true, and docChanged becomes true in no other way.
C6_EmptyChangeIsNoOp ==
  [][\A t \in TrIds :
       /\ (/\ Live(t) /\ tr[t].state = 0
           /\ CallOn(t, {"change", "replace"}) /\ TrueEmpty(StepChange))
            => (res'.status = "ok" /\ SameTransaction(t))
       /\ (/\ Live(t) /\ CallOn(t, {"change", "replace"}) /\ res'.status = "ok"
           /\ ~TrueEmpty(StepChange))
            => docChanged(Tx(t))'
       /\ (CallOn(t, {"t"}) /\ ~Live(t)) => ~docChanged(Tx(t))'
       /\ (Live(t) /\ ~docChanged(Tx(t)) /\ docChanged(Tx(t))')
            => \/ /\ CallOn(t, {"change", "replace"}) /\ res'.status = "ok"
                  /\ ~TrueEmpty(StepChange)
               \/ CallbackChanged(t)]_vars

\* an empty change outside of the document, made on an open transaction
C6_Witness ==
  /\ res.op = "replace"
  /\ res.status = "ok"
  /\ TrueEmpty(res.arg.change)
  /\ res.arg.change.from > Len(DocAfterChanges(res.t))
  /\ ~docChanged(Tx(res.t))

\* c2 undoes c on the document doc
Undoes(c2, c, doc) ==
  /\ c2.from = c.from
  /\ c2.to = c.from + Len(Inserted(c))
  /\ Inserted(c2) = SubSeq(doc, c.from + 1, c.to)

\* C7: the changes of invertedChanges(), applied in their stored order to
\* the end document, give the start document; there are as many as the
\* transaction has changes, the i-th undoing change n-1-i on the document
\* that change was made on; without changes the result is the empty set.
C7_InvertedChanges ==
  \A t \in TrIds :
    (res.op = "invertedChanges" /\ res.t = t) =>
      LET cs == tr[t].changes.changes
          n == Len(cs)
          inv == res.value.inverted
      IN /\ ApplyAll(inv.changes, DocAfterChanges(t)) = StartDoc(t)
         /\ Len(inv.changes) = n
         /\ \A i \in 0..(n - 1) :
              Undoes(inv.changes[i + 1], cs[n - i],
                     ApplyAll(SubSeq(cs, 1, n - 1 - i), StartDoc(t)))
         /\ n = 0 => inv = ChangeSetEmpty

C7_Witness ==
  /\ res.op = "invertedChanges"
  /\ Len(res.value.inverted.changes) = 2
  /\ DocAfterChanges(res.t) # StartDoc(res.t)
  /\ tr[res.t].changes.changes[2].from < tr[res.t].changes.changes[1].to


\* The step before was a forEachRange or replaceSelection call on transaction t.
RangeCall(t) == res.t = t /\ res.op \in {"forEachRange", "replaceSelection"}

\* The changes of transaction t from the 0-based index from up to (not
\* including) index to.
ChangesBetween(t, from, to) == SubSeq(tr[t].changes.changes, from + 1, to)

\* C8: forEachRange(f) invokes f once per range of the selection captured
\* when the call starts, in the order of the ranges, which is left to right;
\* the k-th invocation starts where invocation k-1 ended and gets the k-th
\* captured range mapped through the changes invocations 1..k-1 of this call
\* added, and through no change made before the call.  A call in which f
\* throws ends with that invocation.
C8_RangesSeenMapped ==
  \A t \in TrIds :
    RangeCall(t) =>
      LET calls == feLog.calls
          ranges == feLog.sel.ranges
      IN /\ Len(calls) <= Len(ranges)
         /\ res.status = "ok" => Len(calls) = Len(ranges)
         /\ \A k \in 2..Len(ranges) : RangeFrom(ranges[k - 1]) <= RangeFrom(ranges[k])
         /\ \A k \in 1..Len(calls) :
              /\ calls[k].before = IF k = 1 THEN feLog.start ELSE calls[k - 1].after
              /\ calls[k].arg =
                   RangeMap(ranges[k], ChangesBetween(t, feLog.start, calls[k].before))

\* a call after an earlier change, whose first invocation moves the second range
C8_Witness ==
  /\ RangeCall(res.t) /\ res.status = "ok"
  /\ feLog.start > 0
  /\ Len(feLog.calls) = 2
  /\ feLog.calls[2].before > feLog.calls[1].before
  /\ feLog.calls[2].arg # feLog.sel.ranges[2]
  /\ feLog.calls[2].arg
       # RangeMap(feLog.sel.ranges[2], ChangesBetween(res.t, 0, feLog.calls[2].before))

\* The range invocation j returned, mapped through the changes the later
\* invocations added.
ReturnedMapped(t) ==
  [j \in 1..Len(feLog.calls) |->
     RangeMap(feLog.calls[j].result,
              ChangesBetween(t, feLog.calls[j].after, ChangeSetLength(tr[t].changes)))]

DocBeforeCall(t) ==
  IF feLog.start = 0 THEN StartDoc(t) ELSE arrays[tr[t].docs][feLog.start]

\* doc with each of the first k ranges replaced by the characters text,
\* the rightmost first; a range that reaches past the end of doc stands for
\* its part inside doc.
RECURSIVE ReplacedRanges(_, _, _, _)
ReplacedRanges(doc, ranges, k, text) ==
  IF k = 0 THEN doc
  ELSE ReplacedRanges(SubSeq(doc, 1, Min(RangeFrom(ranges[k]), Len(doc))) \o text
                        \o SubSeq(doc, Min(RangeTo(ranges[k]), Len(doc)) + 1, Len(doc)),
                      ranges, k - 1, text)

\* By how much replacing the first k ranges with len characters each moves
\* what comes after them.
RECURSIVE ShiftAfter(_, _, _)
ShiftAfter(ranges, k, len) ==
  IF k = 0 THEN 0
  ELSE ShiftAfter(ranges, k - 1, len) + len - (RangeTo(ranges[k]) - RangeFrom(ranges[k]))

\* The position directly after the i-th inserted copy of the text.
CursorAfterCopy(ranges, i, len) == RangeFrom(ranges[i]) + ShiftAfter(ranges, i - 1, len) + len

CursorsAfterCopies(ranges, len) ==
  [i \in 1..Len(ranges) |->
     NewRange(CursorAfterCopy(ranges, i, len), CursorAfterCopy(ranges, i, len))]

Separated(ranges, n) ==
  /\ \A i \in 1..Len(ranges) : RangeTo(ranges[i]) <= n
  /\ \A i \in 2..Len(ranges) : RangeTo(ranges[i - 1]) < RangeFrom(ranges[i])

WellFormed(sel) ==
  /\ Len(sel.ranges) >= 1
  /\ \A i \in 2..Len(sel.ranges) :
       /\ RangeFrom(sel.ranges[i - 1]) <= RangeFrom(sel.ranges[i])
       /\ RangeTo(sel.ranges[i - 1]) <= RangeFrom(sel.ranges[i])
       /\ RangeEmpty(sel.ranges[i]) => RangeTo(sel.ranges[i - 1]) < RangeFrom(sel.ranges[i])
  /\ 0 <= sel.primaryIndex
  /\ sel.primaryIndex < Len(sel.ranges)

\* C11: the pending selection of a transaction is at all times, so after
\* every setSelection, forEachRange or replaceSelection call and after every
\* change that maps it, non-empty, sorted by position and without
\* overlapping ranges, and its primary index names one of its ranges.
C11_SelectionWellFormed ==
  \A t \in TrIds : Live(t) => WellFormed(tr[t].selection)

\* a forEachRange call whose two returned ranges were merged into one
C11_Witness ==
  /\ RangeCall(res.t) /\ res.status = "ok"
  /\ Len(feLog.calls) = 2
  /\ feLog.sel.primaryIndex = 1
  /\ states[tr[res.t].startState].configuration.multi
  /\ Len(tr[res.t].selection.ranges) = 1
  /\ tr[res.t].selection.primaryIndex = 0


\* The start state of transaction t allows multiple selections.
StartAllowsMultiple(t) == states[tr[t].startState].configuration.multi

\* C12: setSelection(sel) on an open transaction makes sel the pending
\* selection when the configuration of the start state allows multiple
\* selections and sel.asSingle(), one range, when it does not; it sets the
\* selectionSet flag and leaves changes, docs, annotations and configuration
\* as they were.  selectionSet is false on a new transaction and becomes
\* true only in a setSelection, forEachRange or replaceSelection call,
\* never in a change that maps the selection.
C12_SetSelection ==
  [][\A t \in TrIds :
       /\ (Live(t) /\ tr[t].state = 0 /\ CallOn(t, {"setSelection"})) =>
            LET sel == res'.arg.selection
            IN /\ res'.status = "ok"
               /\ tr'[t].selection = IF StartAllowsMultiple(t) THEN sel ELSE asSingle(sel)
               /\ ~StartAllowsMultiple(t) => Len(tr'[t].selection.ranges) = 1
               /\ selectionSet(Tx(t))'
               /\ tr'[t].changes = tr[t].changes
               /\ arrays'[tr[t].docs] = arrays[tr[t].docs]
               /\ tr'[t].annotations = tr[t].annotations
               /\ tr'[t].configuration = tr[t].configuration
       /\ (CallOn(t, {"t"}) /\ ~Live(t)) => ~selectionSet(Tx(t))'
       /\ (Live(t) /\ ~selectionSet(Tx(t)) /\ selectionSet(Tx(t))') =>
            (CallOn(t, {"setSelection", "forEachRange", "replaceSelection"})
               /\ res'.status = "ok")
       /\ (Live(t) /\ ~selectionSet(Tx(t)) /\ CallOn(t, {"change", "replace"})) =>
            ~selectionSet(Tx(t))']_vars

\* a selection of two ranges collapsed to its primary range although the
\* transaction has been reconfigured to allow multiple selections
C12_Witness ==
  /\ res.op = "setSelection" /\ res.status = "ok"
  /\ Len(res.arg.selection.ranges) = 2
  /\ tr[res.t].selection = asSingle(res.arg.selection)
  /\ ~StartAllowsMultiple(res.t)
  /\ tr[res.t].configuration.multi
  /\ selectionSet(Tx(res.t))

\* a change has mapped the selection of a transaction and selectionSet is false
C12_WitnessMapped ==
  /\ res.op = "replace" /\ res.status = "ok"
  /\ tr[res.t].selection # states[tr[res.t].startState].selection
  /\ ~selectionSet(Tx(res.t))


\* The types of annotation asked for: two that transactions carry and one
\* that none does.
AnnotationTypes == {"time", "userEvent", "addToHistory"}

\* The places of the annotations of a type in a list.
PlacesOf(anns, type) == {i \in 1..Len(anns) : anns[i].type = type}

\* The values of the annotations of a type, in the order of the list.
RECURSIVE ValuesOf(_, _)
ValuesOf(anns, type) ==
  IF Len(anns) = 0 THEN <<>>
  ELSE (IF Head(anns).type = type THEN <<Head(anns).value>> ELSE <<>>)
         \o ValuesOf(Tail(anns), type)

\* C14: the annotations of a transaction start as the time annotation of
\* its construction alone, and are changed only by annotate, which appends
\* its arguments in order; annotation(type) is the value of the last
\* annotation of the type in the list, undefined when there is none, and
\* annotations(type) is the values of all of them in the order of the list,
\* empty when there is none.
C14_Annotations ==
  [][\A t \in TrIds :
       /\ (CallOn(t, {"t"}) /\ ~Live(t)) =>
            (Len(tr'[t].annotations) = 1 /\ tr'[t].annotations[1].type = "time")
       /\ Live(t) =>
            /\ (CallOn(t, {"annotate"}) /\ res'.status = "ok") =>
                 tr'[t].annotations = tr[t].annotations \o res'.arg.annotations
            /\ ~(CallOn(t, {"annotate"}) /\ res'.status = "ok") =>
                 tr'[t].annotations = tr[t].annotations
            /\ \A type \in AnnotationTypes :
                 LET anns == tr'[t].annotations
                     places == PlacesOf(anns, type)
                 IN /\ annotation(Tx(t)', type) =
                         IF places = {} THEN Undefined
                         ELSE [value |-> anns[CHOOSE i \in places : \A j \in places : j <= i].value]
                    /\ annotations(Tx(t)', type) = ValuesOf(anns, type)]_vars

\* two annotations of one type with different values: the later one is found
C14_Witness ==
  /\ res.op = "annotate" /\ res.status = "ok"
  /\ annotations(Tx(res.t), "userEvent") = <<"paste", "cut">>
  /\ annotation(Tx(res.t), "userEvent") = [value |-> "cut"]
  /\ annotation(Tx(res.t), "addToHistory") = Undefined
  /\ annotations(Tx(res.t), "time") = <<10>>


\* The field values of state i.
ValuesOfState(i) == valueObjs[states[i].values]

\* C15: the state a transaction was applied to has a value for exactly the
\* fields its configuration declares: for a field that has a value in the
\* start state, the result of the field's update on that value, for a field
\* that has none, the result of its initializer on the new state; a field
\* that only the configuration of the start state declares has no value.
C15_AppliedFields ==
  \A t \in TrIds :
    (Live(t) /\ tr[t].state # 0) =>
      LET new == states[tr[t].state]
          old == ValuesOfState(tr[t].startState)
          values == ValuesOfState(tr[t].state)
      IN /\ DOMAIN values = Fields(tr[t].configuration)
         /\ new.configuration = tr[t].configuration
         /\ \A f \in DOMAIN values :
              values[f] = IF f \in DOMAIN old
                            THEN [len |-> Len(new.doc), updates |-> old[f].updates + 1]
                            ELSE [len |-> Len(new.doc), updates |-> 0]

\* a reconfigured transaction that adds a field and changes the document
C15_Witness ==
  \E t \in TrIds :
    /\ Live(t) /\ tr[t].state # 0
    /\ reconfigured(Tx(t))
    /\ DOMAIN ValuesOfState(tr[t].startState) = {1}
    /\ DOMAIN ValuesOfState(tr[t].state) = {1, 2}
    /\ ValuesOfState(tr[t].state)[1] = [len |-> 2, updates |-> 1]
    /\ ValuesOfState(tr[t].state)[2] = [len |-> 2, updates |-> 0]
    /\ ValuesOfState(tr[t].startState)[1] = [len |-> MaxDocLen, updates |-> 0]

\* a reconfigured transaction that drops a field
C15_WitnessDropped ==
  \E t \in TrIds :
    /\ Live(t) /\ tr[t].state # 0
    /\ DOMAIN ValuesOfState(tr[t].startState) = {1, 2}
    /\ DOMAIN ValuesOfState(tr[t].state) = {1}


\* Some range of the selection reaches past the end of the document.
PastEnd(sel, doc) == \E k \in 1..Len(sel.ranges) : RangeTo(sel.ranges[k]) > Len(doc)

\* The selection EditorState.create makes of the one it is given.
CreateSelection(arg) ==
  LET given == IF arg.selection = NoSelection THEN SelectionSingle(0, 0) ELSE arg.selection
  IN IF arg.ext.multi THEN given ELSE asSingle(given)

\* C13: in every state that exists no selection range reaches past the end
\* of the document.  apply() on an open transaction whose pending selection
\* reaches past the end of its final document fails with a range error and
\* makes no state, and so does create when the selection it is to use (the
\* given one, or its primary range when multiple selections are not
\* allowed) reaches past the end of the document; no range is clamped.
C13_SelectionInDocument ==
  [][/\ \A i \in 1..Len(states) : ~PastEnd(states[i].selection, states[i].doc)
     /\ \A i \in 1..Len(states') : ~PastEnd(states'[i].selection, states'[i].doc)
     /\ \A t \in TrIds :
          (/\ Live(t) /\ tr[t].state = 0 /\ CallOn(t, {"apply"})
           /\ PastEnd(tr[t].selection, DocAfterChanges(t)))
            => /\ res'.status = "RangeError"
               /\ states' = states
               /\ tr'[t] = tr[t]
     /\ (res'.op = "create" /\ res' # res
           /\ PastEnd(CreateSelection(res'.arg), DocOfConfig(res'.arg.doc)))
          => (res'.status = "RangeError" /\ states' = states)
     /\ (res'.op \in {"create", "fromJSON"} /\ res'.status = "ok" /\ res' # res)
          => (Len(states') = Len(states) + 1 /\ res'.value.state = Len(states'))]_vars

\* apply() fails for a selection set inside the start document, after a
\* change that made the document shorter
C13_Witness ==
  /\ res.op = "apply" /\ res.status = "RangeError"
  /\ docChanged(Tx(res.t))
  /\ ~PastEnd(tr[res.t].selection, StartDoc(res.t))
  /\ PastEnd(tr[res.t].selection, DocAfterChanges(res.t))
  /\ tr[res.t].state = 0

\* create fails for a selection past the end of the document
C13_WitnessCreate ==
  /\ res.op = "create" /\ res.status = "RangeError"
  /\ res.arg.ext.multi
  /\ ~PastEnd(asSingle(res.arg.selection), DocOfConfig(res.arg.doc))


\* The call before was EditorState.create with a configuration object.
CreateCall == res.op = "create" /\ "ext" \in DOMAIN res.arg

\* The field list names some field twice.
NamedTwice(fields) == \E j \in 1..Len(fields), k \in 1..Len(fields) : j < k /\ fields[j] = fields[k]

\* C16: EditorState.create, when the state constructor accepts the
\* selection and no initializer fails, calls the initializer of every
\* declared field exactly once and returns the state, and it fails with the
\* duplicate-field error when the field list names a field a second time,
\* whatever value the field was given the first time.
C16_DuplicateFieldRejected ==
  (/\ CreateCall
   /\ ~PastEnd(CreateSelection(res.arg), DocOfConfig(res.arg.doc))
   /\ \A k \in 1..Len(res.arg.ext.fields) : res.arg.ext.fields[k] \in 1..4) =>
     IF NamedTwice(res.arg.ext.fields)
       THEN res.status = "Error" /\ res.value.state = 0
     ELSE res.status = "ok" /\ res.value.inits = res.arg.ext.fields


\* The places of field f in a field list.
PlacesIn(fields, f) == {k \in 1..Len(fields) : fields[k] = f}

\* What create does for a field list in which the field at place k reads
\* field 1 in its initializer, asking for it with the given require.
ReaderCase(fields, k, require) ==
  IF \E j \in PlacesIn(fields, 1) : j < k
    THEN /\ res.status = "ok"
         /\ valueObjs[states[res.value.state].values][fields[k]]
              = valueObjs[states[res.value.state].values][1]
  ELSE IF PlacesIn(fields, 1) # {} \/ require
    THEN res.status = "RangeError" /\ res.value.state = 0
  ELSE /\ res.status = "ok"
       /\ valueObjs[states[res.value.state].values][fields[k]] = Undefined

C17_WitnessUndefined ==
  /\ res.op = "field" /\ res.status = "ok"
  /\ res.arg.require
  /\ res.arg.f \in DOMAIN ValuesOfState(res.arg.state)
  /\ res.value = Undefined

\* an absent field that is not required
C17_WitnessAbsent ==
  /\ res.op = "field" /\ res.status = "ok"
  /\ ~res.arg.require
  /\ res.arg.f \notin DOMAIN ValuesOfState(res.arg.state)
  /\ res.value = Undefined


\* C18: fromJSON(s.toJSON(), {extensions}) with the extensions of state s
\* returns a new state with the document and the selection of s, its field
\* values made by the initializers and not taken from s; fromJSON of no
\* json, or of one whose doc is missing or not a string, fails with the
\* format error and makes no state.
C18_JSONRoundTrip ==
  res.op = "fromJSON" =>
    IF res.arg.from # 0
      THEN /\ res.status = "ok"
           /\ states[res.value.state].doc = states[res.arg.from].doc
           /\ states[res.value.state].selection = states[res.arg.from].selection
           /\ res.value.state # res.arg.from
           /\ res.value.inits = states[res.arg.from].configuration.fields
    ELSE res.status = "RangeError" /\ res.value.state = 0

\* The place of the first ancestor that carries the Child bit among the
\* ancestors anc (nearest first) of a view, their number when none does.
FirstChildMarked(vs, anc) ==
  IF \E i \in DOMAIN anc : HasFlag(vs[anc[i]].dirty, Dirty.Child)
    THEN CHOOSE i \in DOMAIN anc :
           /\ HasFlag(vs[anc[i]].dirty, Dirty.Child)
           /\ \A j \in 1..(i - 1) : ~HasFlag(vs[anc[j]].dirty, Dirty.Child)
  ELSE Len(anc)

\* What every call of markDirty leaves: the Node bit on the view, a dirty
\* mark on every ancestor, the walk up to the first ancestor that carried
\* the Child bit and no further, and no change at all when the view carried
\* the Node bit.
MarkDirtyCommon(v, andParent) ==
  LET anc == Ancestors(views, v)
      stop == FirstChildMarked(views, anc)
  IN /\ HasFlag(views'[v].dirty, Dirty.Node)
     /\ \A i \in DOMAIN anc : views'[anc[i]].dirty # Dirty.Not
     /\ HasFlag(views[v].dirty, Dirty.Node) => (views' = views /\ res'.value.visited = <<>>)
     /\ ~HasFlag(views[v].dirty, Dirty.Node) =>
          /\ res'.value.visited = SubSeq(anc, 1, stop)
          /\ \A i \in DOMAIN anc : i > stop => views'[anc[i]] = views[anc[i]]
          /\ \A i \in 1..stop : HasFlag(views'[anc[i]].dirty, Dirty.Child)
          /\ \A i \in 2..Len(anc) : views'[anc[i]].dirty \in {views[anc[i]].dirty,
                                                               SetFlag(views[anc[i]].dirty, Dirty.Child)}
     /\ \A u \in ViewIds : u # v /\ ~(u \in SeqRange(anc)) => views'[u] = views[u]
     /\ \A u \in ViewIds : [views'[u] EXCEPT !.dirty = 0] = [views[u] EXCEPT !.dirty = 0]
     /\ childNodes' = childNodes

\* C19 as stated: after markDirty() the view carries the Node bit and every
\* ancestor is dirty; after markDirty(true) the direct parent carries the
\* Node bit, whatever the view carried before; the walk stops at the first
\* ancestor with the Child bit; a view with the Node bit changes nothing.
C19_Original ==
  [][res'.op = "markDirty" /\ (res' # res \/ views' # views) =>
       /\ MarkDirtyCommon(res'.arg.view, res'.arg.andParent)
       /\ (res'.arg.andParent /\ views[res'.arg.view].parent # 0) =>
            HasFlag(views'[views[res'.arg.view].parent].dirty, Dirty.Node)]_vars

\* C19: after markDirty() the view carries the Node bit and every ancestor
\* up to the root is dirty; after markDirty(true) on a view that did not
\* carry the Node bit the direct parent carries the Node bit as well; the
\* walk upwards stops at the first ancestor that already carried the Child
\* bit and looks at no ancestor above it; markDirty on a view that carries
\* the Node bit changes no view.
C19_MarkDirty ==
  [][res'.op = "markDirty" /\ (res' # res \/ views' # views) =>
       /\ MarkDirtyCommon(res'.arg.view, res'.arg.andParent)
       /\ (res'.arg.andParent /\ views[res'.arg.view].parent # 0
             /\ ~HasFlag(views[res'.arg.view].dirty, Dirty.Node)) =>
            HasFlag(views'[views[res'.arg.view].parent].dirty, Dirty.Node)]_vars

\* markDirty stopped below the root: an ancestor was not looked at.
C19_Witness ==
  /\ res.op = "markDirty"
  /\ Len(res.value.visited) >= 1
  /\ Len(res.value.visited) < Len(Ancestors(views, res.arg.view))

\* markDirty(true) gave the parent the Node bit and walked on to the root.
C19_WitnessParent ==
  /\ res.op = "markDirty"
  /\ res.arg.andParent
  /\ Len(res.value.visited) >= 2
  /\ views[res.value.visited[1]].dirty = 3
  /\ views[res.value.visited[2]].dirty = Dirty.Child

\* A step that is a call of sync on view v (sync alone, or the sync of a
\* root whose mark is cleared after it).
SyncCall(v) ==
  /\ res'.op \in {"sync", "syncRoot"}
  /\ res'.arg.view = v
  /\ res' # res \/ views' # views \/ childNodes' # childNodes

\* The rendered nodes of the children of v, in child order.
ChildDoms(vs, v) == [i \in DOMAIN vs[v].children |-> vs[vs[v].children[i]].dom]

\* What sync is to leave under a view that carried the Node bit.
Synchronized(v) ==
  /\ res'.status = "ok"
  /\ childNodes'[views[v].dom] = ChildDoms(views', v)
  /\ \A i \in DOMAIN views[v].children : views'[views[v].children[i]].dirty = Dirty.Not
  /\ childNodes[views[v].dom] = ChildDoms(views, v) =>
       \A i \in DOMAIN res'.value.ops : res'.value.ops[i].parent # views[v].dom

\* C20: sync() on a view that carries the Node bit ends without an error
\* and leaves the child list of the view's rendered node equal to the
\* rendered nodes of its children in child order, whatever the rendered
\* children were before (missing, in another order, mixed with nodes of no
\* view or of views that are no longer children); a list that was right
\* already is not touched, and every child is clean afterwards.
C20_SyncRendersChildren ==
  [][\A v \in ViewIds :
       SyncCall(v) /\ HasFlag(views[v].dirty, Dirty.Node) => Synchronized(v)]_vars

\* The same for the calls of sync that end without an error.
C20_WhenNoError ==
  [][\A v \in ViewIds :
       SyncCall(v) /\ HasFlag(views[v].dirty, Dirty.Node) /\ res'.status = "ok"
         => Synchronized(v)]_vars

\* What sync is to do on view v that carries the Child bit only: the
\* children whose sync runs are the dirty ones, they end clean, and the
\* child list of the rendered node of v is as it was.
ChildrenSynced(v) ==
  /\ \A i \in DOMAIN views[v].children :
       (views[v].children[i] \in SeqRange(res'.value.synced))
         <=> (views[views[v].children[i]].dirty # Dirty.Not)
  /\ \A i \in DOMAIN views[v].children : views'[views[v].children[i]].dirty = Dirty.Not
  /\ childNodes'[views[v].dom] = childNodes[views[v].dom]
  /\ \A i \in DOMAIN res'.value.ops : res'.value.ops[i].parent # views[v].dom
  /\ views'[v].children = views[v].children

\* sync on a clean view: no view and no rendered node changes, no other
\* sync runs.
NothingSynced(v) ==
  /\ views' = views
  /\ childNodes' = childNodes
  /\ res'.value.synced = <<v>>
  /\ res'.value.ops = <<>>

\* C21: sync() on a view with the Child bit and without the Node bit calls
\* sync on exactly its dirty children and clears their marks, and inserts,
\* moves or removes no child of its own rendered node; clean children are
\* not visited; sync() on a clean view does nothing.
C21_SyncChildDirty ==
  [][\A v \in ViewIds :
       /\ SyncCall(v) /\ views[v].dirty = Dirty.Child => ChildrenSynced(v)
       /\ SyncCall(v) /\ views[v].dirty = Dirty.Not => NothingSynced(v)]_vars

\* The same for the calls of sync that end without an error.
C21_WhenNoError ==
  [][\A v \in ViewIds :
       /\ SyncCall(v) /\ views[v].dirty = Dirty.Child /\ res'.status = "ok" => ChildrenSynced(v)
       /\ SyncCall(v) /\ views[v].dirty = Dirty.Not => NothingSynced(v)]_vars

\* C22: sync() is idempotent: directly after a call of sync() on a view
\* that returned, with no change of the views or of the rendered tree in
\* between, a second sync() on that view inserts, moves and removes nothing
\* in the rendered tree, and ends without an error; this holds as well when
\* the view's own mark was not cleared after the first call.
C22_SyncIdempotent ==
  (res.op \in {"sync", "syncRoot"} /\ res.status = "ok") =>
    /\ sync(SyncStart(views, childNodes), res.arg.view).ops = <<>>
    /\ sync(SyncStart(views, childNodes), res.arg.view).dom = childNodes
    /\ sync(SyncStart(views, childNodes), res.arg.view).status = "ok"

\* A first sync changed the rendered tree and left the Node bit on its view.
C22_Witness ==
  /\ res.op = "sync"
  /\ res.status = "ok"
  /\ Len(res.value.ops) >= 2
  /\ HasFlag(views[res.arg.view].dirty, Dirty.Node)

\* The lengths and breaks of the children of p that stand before place k.
RECURSIVE SizeBefore(_, _, _)
SizeBefore(vs, p, k) ==
  IF k <= 1 THEN 0
  ELSE SizeBefore(vs, p, k - 1) + vs[vs[p].children[k - 1]].length
                                + vs[vs[p].children[k - 1]].breakAfter

\* The position at which a view starts: 0 without a parent, else what
\* stands before it in its parent, counted from the start of the parent.
RECURSIVE StartOf(_, _)
StartOf(vs, v) ==
  IF vs[v].parent = 0 THEN 0
  ELSE StartOf(vs, vs[v].parent)
         + SizeBefore(vs, vs[v].parent, IndexIn(vs[vs[v].parent].children, v))

IsChild(vs, p, v) == \E k \in DOMAIN vs[p].children : vs[p].children[k] = v

\* C23: for a view p and its k-th child c, p.posBefore(c) is p.posAtStart
\* plus the lengths and breaks of the children before c, p.posAfter(c) is
\* p.posBefore(c) + c.length, c.posAtStart is p.posBefore(c), a view without
\* parent has posAtStart 0, and posBefore(v) for a v that is not a child of
\* p fails with a RangeError.
C23_Positions ==
  /\ res.op = "posBefore" =>
       IF IsChild(views, res.arg.view, res.arg.child)
         THEN /\ res.status = "ok"
              /\ res.value.pos = StartOf(views, res.arg.view)
                   + SizeBefore(views, res.arg.view,
                                IndexIn(views[res.arg.view].children, res.arg.child))
              /\ res.value.pos = posAtStart(views, res.arg.child).value
              /\ StartOf(views, res.arg.view) = posAtStart(views, res.arg.view).value
       ELSE res.status = "RangeError"
  /\ res.op = "posAfter" =>
       IF IsChild(views, res.arg.view, res.arg.child)
         THEN /\ res.status = "ok"
              /\ res.value.pos = posBefore(views, res.arg.view, res.arg.child).value
                                   + views[res.arg.child].length
       ELSE res.status = "RangeError"
  /\ res.op = "posAtStart" =>
       /\ res.status = "ok"
       /\ views[res.arg.view].parent = 0 => res.value.pos = 0
       /\ views[res.arg.view].parent # 0 =>
            res.value.pos = posBefore(views, views[res.arg.view].parent, res.arg.view).value

\* posBefore of a child of a view that does not start at 0.
C23_Witness ==
  /\ res.op = "posBefore"
  /\ res.status = "ok"
  /\ StartOf(views, res.arg.view) > 0
  /\ res.value.pos >= StartOf(views, res.arg.view)

\* posBefore of a child with a break and a longer view before it.
C23_WitnessSecond ==
  /\ res.op = "posBefore"
  /\ res.status = "ok"
  /\ IndexIn(views[res.arg.view].children, res.arg.child) >= 2
  /\ res.value.pos = MaxLeafLen + 1

\* posBefore of a view that is no child of the view asked.
C23_WitnessError == res.op = "posBefore" /\ res.status = "RangeError"

\* Start and end of the k-th child of v, counted from the start of v.
ChildStart(vs, v, k) == SizeBefore(vs, v, k)
ChildEnd(vs, v, k) == SizeBefore(vs, v, k) + vs[vs[v].children[k]].length

\* The child nodes of the rendered node of v from start up to end (to the
\* last one when end is 0).
DomSpan(d, v, start, end) ==
  SubSeq(d[v], IF start = 0 THEN Len(d[v]) + 1 ELSE IndexIn(d[v], start),
               IF end = 0 THEN Len(d[v]) ELSE IndexIn(d[v], end) - 1)

\* A child of v whose span strictly contains from..to.
Holder(vs, v, from, to) ==
  {k \in DOMAIN vs[v].children : ChildStart(vs, v, k) < from /\ ChildEnd(vs, v, k) > to}

\* The result r is the span of the children i..j of v, it covers from..to
\* and startDOM, endDOM delimit the rendered nodes of these children.
SpanOfChildren(vs, d, v, from, to, r, i, j) ==
  /\ i <= j
  /\ r.from = ChildStart(vs, v, i)
  /\ r.to = ChildEnd(vs, v, j)
  /\ r.from <= from
  /\ to <= r.to
  /\ DomSpan(d, vs[v].dom, r.startDOM, r.endDOM) = [k \in 1..(j - i + 1) |-> vs[vs[v].children[i + k - 1]].dom]

\* domBoundsAround gave what the holder's domBoundsAround gives for its
\* own offset.
Delegated(vs, d, v, from, to) ==
  \A k \in Holder(vs, v, from, to) :
    /\ res.status = domBoundsAround(vs, d, vs[v].children[k], from, to, ChildStart(vs, v, k)).status
    /\ res.value = domBoundsAround(vs, d, vs[v].children[k], from, to, ChildStart(vs, v, k)).value

\* C24 as stated: the span lies on child boundaries, covers the request,
\* startDOM and endDOM delimit the rendered nodes of its children, and no
\* smaller span of whole children covers from..to; with a child that
\* strictly contains the request the result is the one of that child.
C24_Original ==
  res.op = "domBoundsAround" =>
    IF Holder(views, res.arg.view, res.arg.from, res.arg.to) # {}
      THEN Delegated(views, childNodes, res.arg.view, res.arg.from, res.arg.to)
    ELSE /\ res.status = "ok"
         /\ \E i, j \in DOMAIN views[res.arg.view].children :
              SpanOfChildren(views, childNodes, res.arg.view, res.arg.from, res.arg.to,
                             res.value, i, j)
         /\ ~ \E i, j \in DOMAIN views[res.arg.view].children :
                /\ i <= j
                /\ ChildStart(views, res.arg.view, i) <= res.arg.from
                /\ res.arg.to <= ChildEnd(views, res.arg.view, j)
                /\ ChildStart(views, res.arg.view, i) >= res.value.from
                /\ ChildEnd(views, res.arg.view, j) <= res.value.to
                /\ ChildEnd(views, res.arg.view, j) - ChildStart(views, res.arg.view, i)
                     < res.value.to - res.value.from

\* C24: for a view with children and 0 <= from <= to <= length,
\* domBoundsAround(from, to) returns a span that lies on child boundaries
\* and covers the request, with startDOM and endDOM delimiting exactly the
\* rendered nodes of the children in the span; the span runs from the first
\* child that ends at or after from to the first child that ends at or
\* after to, so a child that ends exactly at from is part of it; with a
\* child that strictly contains the request the result is the one that
\* child's domBoundsAround returns for its own offset.
C24_DomBoundsAround ==
  res.op = "domBoundsAround" =>
    IF Holder(views, res.arg.view, res.arg.from, res.arg.to) # {}
      THEN Delegated(views, childNodes, res.arg.view, res.arg.from, res.arg.to)
    ELSE /\ res.status = "ok"
         /\ \E i, j \in DOMAIN views[res.arg.view].children :
              /\ SpanOfChildren(views, childNodes, res.arg.view, res.arg.from, res.arg.to,
                                res.value, i, j)
              /\ ChildEnd(views, res.arg.view, i) >= res.arg.from
              /\ \A k \in 1..(i - 1) : ChildEnd(views, res.arg.view, k) < res.arg.from
              /\ ChildEnd(views, res.arg.view, j) >= res.arg.to
              /\ \A k \in 1..(j - 1) : ChildEnd(views, res.arg.view, k) < res.arg.to

\* A span of two children, the first of which ends where the request starts.
C24_Witness ==
  /\ res.op = "domBoundsAround"
  /\ res.status = "ok"
  /\ Holder(views, res.arg.view, res.arg.from, res.arg.to) = {}
  /\ res.arg.from < res.arg.to
  /\ res.value.from < res.arg.from
  /\ res.value.endDOM # 0
  /\ \E i \in DOMAIN views[res.arg.view].children :
       /\ ChildStart(views, res.arg.view, i) = res.value.from
       /\ ChildEnd(views, res.arg.view, i) = res.arg.from

\* The request lies strictly inside a child that has children.
C24_WitnessDelegated ==
  /\ res.op = "domBoundsAround"
  /\ res.status = "ok"
  /\ Holder(views, res.arg.view, res.arg.from, res.arg.to) # {}

\* C25: replaceChildren(from, to, newChildren) leaves the view with the
\* Node bit and all its ancestors dirty; the child list is the old one with
\* the places from..to replaced by newChildren, every removed child that is
\* not among newChildren has no parent, and every child in the list has the
\* view as parent.
C25_ReplaceChildren ==
  [][res'.op = "replaceChildren" /\ edits' # edits =>
       LET v == res'.arg.view
           old == views[v].children
           removed == {old[i] : i \in (res'.arg.from + 1)..res'.arg.to}
       IN /\ HasFlag(views'[v].dirty, Dirty.Node)
          /\ \A a \in SeqRange(Ancestors(views', v)) : views'[a].dirty # Dirty.Not
          /\ views'[v].children = SubSeq(old, 1, res'.arg.from) \o res'.arg.children
                                    \o SubSeq(old, res'.arg.to + 1, Len(old))
          /\ \A c \in removed \ SeqRange(res'.arg.children) : views'[c].parent = 0
          /\ \A c \in SeqRange(views'[v].children) : views'[c].parent = v
          /\ Ancestors(views', v) = Ancestors(views, v)
          /\ childNodes' = childNodes]_vars

\* replaceChildren took a child out of a view below the root and put
\* another view in its place.
C25_Witness ==
  /\ res.op = "replaceChildren"
  /\ res.arg.to > res.arg.from
  /\ res.arg.children # <<>>
  /\ views[res.arg.view].parent # 0
  /\ \E c \in ViewIds \ {1} :
       /\ views[c].parent = 0
       /\ ~(c \in SeqRange(res.arg.children))
       /\ ~(c \in SeqRange(views[res.arg.view].children))

\* C28: on a rendered tree in sync with the views, for the rendered node
\* of the k-th child of a view, localPosFromDOM(this.dom, place of the node)
\* is the sum of the lengths and breaks of the children before it; a
\* position before the first rendered child gives 0; a position after the
\* last rendered child gives this.length; and the call returns for every
\* node and offset inside this.dom.
C28_LocalPosFromDOM ==
  res.op = "localPosFromDOM" =>
    /\ res.status = "ok"
    /\ res.value.pos \in 0..views[res.arg.view].length
    /\ res.arg.node = views[res.arg.view].dom =>
         /\ res.arg.offset = 0 => res.value.pos = 0
         /\ res.arg.offset < Len(views[res.arg.view].children) =>
              res.value.pos = SizeBefore(views, res.arg.view, res.arg.offset + 1)
         /\ res.arg.offset = Len(views[res.arg.view].children) =>
              res.value.pos = views[res.arg.view].length

\* The position of the rendered node of a later child that does not start
\* at 0.
C28_Witness ==
  /\ res.op = "localPosFromDOM"
  /\ res.arg.node = views[res.arg.view].dom
  /\ res.arg.offset >= 1
  /\ res.arg.offset < Len(views[res.arg.view].children)
  /\ res.value.pos > 0
  /\ res.value.pos < views[res.arg.view].length

\* A position inside a rendered node two levels below.
C28_WitnessInside ==
  /\ res.op = "localPosFromDOM"
  /\ res.status = "ok"
  /\ ParentNode(childNodes, res.arg.node) # 0
  /\ ParentNode(childNodes, res.arg.node) # views[res.arg.view].dom
  /\ res.value.pos > 0

\* The occurrences of the search string that lie inside [from, to].
Occurrences(doc, search, from, to) ==
  {m \in 0..Len(doc) : /\ from <= m
                       /\ m + Len(search) <= to
                       /\ SubSeq(doc, m + 1, m + Len(search)) = search}

SearchedDoc == states[1].doc

\* C29: findPrevInRange returns for every 0 <= from, to <= doc.length; it
\* returns null when no occurrence of the search string lies inside
\* [from, to], and else the last one, which is the match a forward scan of
\* the whole range reports last.
C29_FindPrevInRange ==
  res.op = "findPrevInRange" =>
    LET found == Occurrences(SearchedDoc, res.arg.search, res.arg.from, res.arg.to)
    IN /\ res.status = "ok"
       /\ found = {} => res.value.range = None
       /\ found # {} =>
            /\ res.value.range # None
            /\ res.value.range.from \in found
            /\ \A m \in found : m <= res.value.range.from
            /\ res.value.range.to = res.value.range.from + Len(res.arg.search)
            /\ res.value.range =
                 LastOf(cursor(SearchedDoc, res.arg.search, res.arg.from, res.arg.to))

\* The match found lies across the first chunk boundary: it is found in a
\* later chunk, and it starts before and ends after the start of the chunk
\* before.
C29_Witness ==
  /\ res.op = "findPrevInRange"
  /\ res.value.range # None
  /\ res.value.range.to <= res.arg.to - res.arg.chunk
  /\ res.value.range.from < res.arg.to - res.arg.chunk - Len(res.arg.search)
  /\ res.value.range.to > res.arg.to - res.arg.chunk - Len(res.arg.search)

\* No match after several chunks.
C29_WitnessNull ==
  /\ res.op = "findPrevInRange"
  /\ res.value.range = None
  /\ res.arg.to - res.arg.from > res.arg.chunk + Len(res.arg.search)
  /\ Occurrences(SearchedDoc, res.arg.search, 0, Len(SearchedDoc)) # {}

\* The document with the replacement text put where a match starts and
\* every character that lies in a match left out, from position p on.
RECURSIVE Substituted(_, _, _, _, _)
Substituted(doc, starts, n, text, p) ==
  IF p > Len(doc) THEN <<>>
  ELSE (IF p \in starts THEN text ELSE <<>>)
       \o (IF p < Len(doc) /\ \A m \in starts : ~(m <= p /\ p < m + n) THEN <<doc[p + 1]>>
           ELSE <<>>)
       \o Substituted(doc, starts, n, text, p + 1)

\* The range of the i-th match (counted from 1) in the document it is
\* replaced in: its ends mapped through the changes before it.
MappedMatch(w, ms, i, text) ==
  NewChange(mapPos(SubSeq(w.changes.changes, 1, i - 1), ms[i].from, 1),
            mapPos(SubSeq(w.changes.changes, 1, i - 1), ms[i].to, 0 - 1),
            splitLines(text))

\* C30: replaceAll with a search string that occurs in the document
\* dispatches one transaction that holds one change for each match of the
\* cursor over the original document, in order, each replacing the range of
\* the match mapped through the changes before it; the new document is the
\* original one with every match replaced by the replacement text.  When
\* nothing matches, no transaction is dispatched and false is returned.
C30_ReplaceAll ==
  res.op = "replaceAll" =>
    LET doc == SearchedDoc
        search == res.arg.search
        ms == cursor(doc, search, 0, Len(doc))
        found == IF search = <<>> THEN {} ELSE Occurrences(doc, search, 0, Len(doc))
    IN /\ res.status = "ok"
       /\ found = {} =>
            /\ res.value.returned = FALSE
            /\ Len(states) = 1
            /\ \A t \in TrIds : ~Live(t)
       /\ found # {} =>
            /\ res.value.returned = TRUE
            /\ Len(states) = 2
            /\ Live(1) /\ ~Live(2)
            /\ tr[1].startState = 1 /\ tr[1].state = 2
            /\ ChangeSetLength(tr[1].changes) = Cardinality(found)
            /\ \A i \in 1..Len(ms) :
                 tr[1].changes.changes[i] = MappedMatch(tr[1], ms, i, res.arg.replace)
            /\ states[2].doc = DocAfterChanges(1)
            /\ states[2].doc =
                 Substituted(doc, found, Len(search), res.arg.replace, 0)

\* No two of the matches share a character.
Disjoint(found, n) == \A m \in found, k \in found : m < k => m + n <= k

\* What holds of replaceAll when no two matches overlap: the statement
\* above.  When matches overlap, the mapped range of a later match can
\* cover the text put in for an earlier one.
C30_WhenDisjoint ==
  (/\ res.op = "replaceAll"
   /\ res.arg.search # <<>>
   /\ Disjoint(Occurrences(SearchedDoc, res.arg.search, 0, Len(SearchedDoc)),
               Len(res.arg.search)))
    => C30_ReplaceAll

\* Two matches replaced by a text of another length, so that the second one
\* is replaced at a mapped position.
C30_Witness ==
  /\ res.op = "replaceAll"
  /\ res.value.returned = TRUE
  /\ ChangeSetLength(tr[1].changes) >= 2
  /\ Len(res.arg.replace) # Len(res.arg.search)
  /\ tr[1].changes.changes[2].from # cursor(SearchedDoc, res.arg.search, 0, Len(SearchedDoc))[2].from

\* Nothing matches a search string that is not empty.
C30_WitnessNoMatch ==
  /\ res.op = "replaceAll"
  /\ res.arg.search # <<>>
  /\ res.value.returned = FALSE
  /\ SearchedDoc # <<>>

\* Two matches that overlap are both replaced.
C30_WitnessOverlap ==
  /\ res.op = "replaceAll"
  /\ res.value.returned = TRUE
  /\ \E m \in Occurrences(SearchedDoc, res.arg.search, 0, Len(SearchedDoc)) :
       m + 1 \in Occurrences(SearchedDoc, res.arg.search, 0, Len(SearchedDoc))
  /\ Len(res.arg.search) = 2

\* A flush that found records of changes made from outside.
FlushedBatch == res.op = "flush" /\ res.value.records > 0

\* The flush dispatched transaction res.t, which holds one change that
\* leads from the document of the state before to the one of the view.
OneChange ==
  /\ Live(res.t)
  /\ tr[res.t].startState = ViewState - 1
  /\ tr[res.t].state = ViewState
  /\ ChangeSetLength(tr[res.t].changes) = 1
  /\ DocAfterChanges(res.t) = states[ViewState].doc

RECURSIVE HasCollapsed(_)
HasCollapsed(nodes) ==
  /\ nodes # <<>>
  /\ \/ Head(nodes).kind = "collapsed"
     \/ HasCollapsed(Head(nodes).items)
     \/ HasCollapsed(Tail(nodes))

\* C26 as stated: after changes of the rendered tree from outside and one
\* flush, the document of the state is the text the rendered tree shows,
\* reached from the document before by one change.
C26_Original ==
  FlushedBatch =>
    /\ res.status = "ok"
    /\ states[ViewState].doc = ShownText(contentDOM)
    /\ res.value.dispatched = 1 => OneChange
    /\ res.value.dispatched \in {0, 1}

\* C26: after changes of the rendered tree from outside and one flush, the
\* document of the state is the text read from the rendered tree, in which
\* a collapsed range stands for the text it hides; it is the text the
\* rendered tree shows when nothing in it is collapsed.  The document is
\* reached from the one before by one change, or is the one before when
\* the text read is the same.
C26_FlushReadsTree ==
  FlushedBatch =>
    /\ res.status = "ok"
    /\ states[ViewState].doc = ReadText(contentDOM)
    /\ ~HasCollapsed(contentDOM) => states[ViewState].doc = ShownText(contentDOM)
    /\ res.value.dispatched = 1 => OneChange
    /\ res.value.dispatched \in {0, 1}

\* The text of the first line was changed from "ab" to "ax" in the document
\* "ab\nc".
C26_Witness ==
  /\ FlushedBatch
  /\ res.value.dispatched = 1
  /\ states[ViewState - 1].doc = <<"a", "b", "\n", "c">>
  /\ states[ViewState].doc = <<"a", "x", "\n", "c">>

\* The whole content was replaced by one letter.
C26_WitnessWhole ==
  /\ FlushedBatch
  /\ res.value.dispatched = 1
  /\ Len(states[ViewState - 1].doc) > 1
  /\ states[ViewState].doc = <<"x">>
  /\ tr[res.t].changes.changes[1].to = Len(states[ViewState - 1].doc)

\* A break was put into a line: the document gained a line.
C26_WitnessBreak ==
  /\ FlushedBatch
  /\ res.value.dispatched = 1
  /\ tr[res.t].changes.changes[1].text = <<<<>>, <<>>>>
  /\ tr[res.t].changes.changes[1].from = tr[res.t].changes.changes[1].to

\* A text next to a collapsed range was changed.
C26_WitnessCollapsed ==
  /\ FlushedBatch
  /\ res.value.dispatched = 1
  /\ HasCollapsed(contentDOM)

LiveCount == Cardinality({t \in TrIds : Live(t)})

C27_WitnessNoRecords ==
  /\ res.op = "flush"
  /\ res.value.records = 0
  /\ res.value.dispatched = 0
  /\ edits > 0
  /\ Len(states) > 1

\* docs holds one document for each change, each the result of applying
\* its change to the document before it, and doc is the last of them.
DocsFollowChanges(w) ==
  /\ Len(w.docs) = ChangeSetLength(w.changes)
  /\ \A i \in 1..Len(w.docs) :
       w.docs[i] = ChangeApply(w.changes.changes[i],
                               IF i = 1 THEN states[w.startState].doc ELSE w.docs[i - 1])
  /\ TrDoc(w) = IF Len(w.docs) = 0 THEN states[w.startState].doc ELSE w.docs[Len(w.docs)]

\* C31: at every point in the life of a transaction docs is as long as
\* changes, docs[i] is change i applied to docs[i - 1] (to the document of
\* the start state for the first), and doc is the last entry of docs, or
\* the document of the start state when there is no change; a change that
\* is rejected, and one that is skipped as empty, add to neither.
C31_DocsFollowChanges ==
  /\ [](\A t \in TrIds : Live(t) => DocsFollowChanges(Tx(t)))
  /\ [][\A t \in TrIds :
          (/\ Live(t)
           /\ res'.t = t
           /\ res'.op \in {"change", "replace"}
           /\ \/ res'.status # "ok"
              \/ EmptyEdit(res'.arg.change))
            => /\ Tx(t)'.changes = Tx(t).changes
               /\ Tx(t)'.docs = Tx(t).docs]_vars

\* A transaction with two changes, the second of which works on the
\* document the first one made.
C31_Witness ==
  \E t \in TrIds :
    /\ Live(t)
    /\ Len(Tx(t).docs) = 2
    /\ Tx(t).docs[1] # states[tr[t].startState].doc
    /\ Tx(t).docs[2] # Tx(t).docs[1]

\* A change was rejected on a transaction that holds a change already.
C31_WitnessRejected ==
  /\ res.op \in {"change", "replace"}
  /\ res.status = "RangeError"
  /\ Live(res.t)
  /\ Len(Tx(res.t).docs) >= 1

\* An empty change was skipped on a transaction that holds a change already.
C31_WitnessEmpty ==
  /\ res.op \in {"change", "replace"}
  /\ res.status = "ok"
  /\ EmptyEdit(res.arg.change)
  /\ Live(res.t)
  /\ Len(Tx(res.t).docs) >= 1

\* An apply() of transaction t has failed and none has returned a state.
FailedBefore(t) == Live(t) /\ applyRuns[t] >= 1 /\ tr[t].state = 0

C32_WitnessField ==
  /\ res.op = "apply"
  /\ res.status = "FieldError"
  /\ tr[res.t].state = 0
  /\ docChanged(Tx(res.t))

\* A change was added after apply() had failed.
C32_WitnessMutated ==
  /\ res.op \in {"change", "replace"}
  /\ res.status = "ok"
  /\ FailedBefore(res.t)
  /\ docChanged(Tx(res.t))

\* State s has one selection range unless its own configuration allows
\* multiple selections.
OneRangeUnlessMultiple(s) == s.configuration.multi \/ Len(s.selection.ranges) = 1

\* C33: every state made by create or by applying a transaction has exactly
\* one selection range whenever its own configuration does not allow
\* multiple selections, also when the transaction that made it took the
\* permission away with reconfigure or replaceExtensions.
C33_OneRangeUnlessMultiple ==
  \A i \in 1..Len(states) : OneRangeUnlessMultiple(states[i])

\* The states for which it does hold: a state made by create, and a state
\* applied from a transaction whose configuration allows multiple selections
\* or whose start state did not.
C33_WhenPermissionKept ==
  /\ \A i \in 1..Len(states) :
       (\A t \in TrIds : Live(t) => tr[t].state # i) =>
         OneRangeUnlessMultiple(states[i])
  /\ \A t \in TrIds :
       (/\ Live(t)
        /\ tr[t].state # 0
        /\ OneRangeUnlessMultiple(states[tr[t].startState])
        /\ tr[t].configuration.multi \/ ~StartAllowsMultiple(t)) =>
         OneRangeUnlessMultiple(states[tr[t].state])

\* A state applied from a transaction that took the permission away from a
\* start state holding several ranges.
C33_WitnessRemoved ==
  \E t \in TrIds :
    /\ Live(t)
    /\ tr[t].state # 0
    /\ reconfigured(Tx(t))
    /\ StartAllowsMultiple(t)
    /\ Len(states[tr[t].startState].selection.ranges) > 1
    /\ ~states[tr[t].state].configuration.multi

\* The views of the tree below view v, v included.
TreeOf(vs, v) == {u \in ViewIds : u = v \/ v \in SeqRange(Ancestors(vs, u))}

\* Every view with a dirty mark has only dirty ancestors.
DirtyUnderDirty(vs) ==
  \A v \in ViewIds :
    vs[v].dirty # Dirty.Not =>
      \A a \in SeqRange(Ancestors(vs, v)) : vs[a].dirty # Dirty.Not

\* C34: in every reachable state of a tree changed through markDirty,
\* replaceChildren, setParent and sync, every view with a non-zero dirty mark
\* has only dirty ancestors, also where markDirty or markParentsDirty stopped
\* early; and a sync() of a root that returns, followed by clearing the
\* root's own mark, leaves every view of the root's tree clean.
C34_DirtyUnderDirty ==
  /\ [] DirtyUnderDirty(views)
  /\ [][(res'.op = "syncRoot" /\ res'.status = "ok") =>
          \A u \in TreeOf(views', res'.arg.view) : views'[u].dirty = Dirty.Not]_vars

\* markDirty of a view below two ancestors stopped at the first of them,
\* which had the Child mark already.
C34_Witness ==
  /\ res.op = "markDirty"
  /\ res.status = "ok"
  /\ Len(res.value.visited) = 1
  /\ Len(Ancestors(views, res.arg.view)) >= 2
  /\ views[res.arg.view].dirty # Dirty.Not

\* The update of the whole tree ran sync on views of three levels and left
\* a tree of at least three views clean.
C34_WitnessSync ==
  /\ res.op = "syncRoot"
  /\ res.status = "ok"
  /\ Len(res.value.synced) >= 3
  /\ Cardinality(TreeOf(views, res.arg.view)) >= 3

\* A dirty view was given to replaceChildren of a view below a root.
C34_WitnessAttached ==
  /\ res.op = "replaceChildren"
  /\ res.arg.children # <<>>
  /\ views[res.arg.children[1]].dirty # Dirty.Not
  /\ views[res.arg.view].parent # 0
====
